---- MODULE Spec2Model ----
(***************************************************************************)
(* FSP RPC transport of gpu-admin-tools: the EMEM command/message queues,  *)
(* the legacy FspRpc client (nvidia_gpu_tools.py), the FspEmemRpc channel   *)
(* (gpu/fsp_emem_rpc.py), the PRC knob sub-protocol and set_cc_mode.        *)
(*                                                                         *)
(* The host is one synchronous thread: its position is (task, pc).  The    *)
(* device (FSP firmware) is the environment: it takes a command after the  *)
(* host has written the queue head, and posts a response of its choice.    *)
(***************************************************************************)
EXTENDS Integers, Sequences, FiniteSets, TLC

(* ------------------------------ bounds -------------------------------- *)

\* hardware resets one behaviour may contain
MaxResets == 1

\* operations the caller may start in one behaviour
MaxOps == 2

(* ------------------------- program constants -------------------------- *)

channel_num == 2
EmemChannelBytes == 1024
NVDM_TYPE_PRC == 19
NVDM_TYPE_RSP == 21
\* FspEmemRpc.max_packet_size_bytes
max_packet_size_bytes == 1024
MCTP_TYPE_VENDOR == 126
VENDOR_ID_NVIDIA == 4318
INVALID_KNOB_ERROR == 483
PRC_KNOB_READ == 12
PRC_KNOB_WRITE == 13
PRC_KNOB_PERSIST == 2
KnobValueMask == 65535

PRC_KNOB_ID_2 == 2
PRC_KNOB_ID_4 == 4
PRC_KNOB_ID_CCD == 6
PRC_KNOB_ID_CCM == 8
PRC_KNOB_ID_BAR0_DECOUPLER == 10
PRC_KNOB_ID_34 == 34

\* prc_block_nvlinks: sub msg 0xa, 0x1 << 8 when not persistent
PRC_NVLINK == 10
PRC_NOT_PERSISTENT == 1
\* props["nvlink"]["number"] of H100 and of NVSwitch_gen3
NVLINK_NUMBER_H100 == 18
NVLINK_NUMBER_LAGUNA == 64

(* ------------------------- integer bit helpers ------------------------ *)

Shl(x, n) == x * (2 ^ n)
Shr(x, n) == x \div (2 ^ n)

RECURSIVE BitOr(_, _)
BitOr(a, b) ==
  IF a = 0 THEN b
  ELSE IF b = 0 THEN a
  ELSE (IF a % 2 = 1 \/ b % 2 = 1 THEN 1 ELSE 0) + 2 * BitOr(a \div 2, b \div 2)

RECURSIVE BitAnd(_, _)
BitAnd(a, b) ==
  IF a = 0 \/ b = 0 THEN 0
  ELSE (IF a % 2 = 1 /\ b % 2 = 1 THEN 1 ELSE 0) + 2 * BitAnd(a \div 2, b \div 2)

(* --------------------------- 32-bit words ----------------------------- *)

\* a 32-bit word of EMEM is held as <<low 16 bits, high 16 bits>>: the model
\* checker's integers are 32-bit signed and the MCTP header word is 0xc0000000
HalfWord == 2 ^ 16

\* the word holding a host integer n, 0 <= n < 2^31
Word(n) == <<n % HalfWord, n \div HalfWord>>

\* word & mask as a host integer, for a mask below 2^31
WordAnd(w, mask) ==
  BitAnd(w[1], mask % HalfWord) + HalfWord * BitAnd(w[2], mask \div HalfWord)

(* ------------------- NiceStruct bitfield packing ---------------------- *)

\* _fields_ of MctpHeader and MctpMessageHeader: <<name, bits>> in
\* declaration order
MctpHeaderFields ==
  << <<"version", 4>>, <<"rsvd0", 4>>, <<"deid", 8>>, <<"seid", 8>>,
     <<"tag", 3>>, <<"to", 1>>, <<"seq", 2>>, <<"eom", 1>>, <<"som", 1>> >>

MctpMessageHeaderFields ==
  << <<"type", 7>>, <<"ic", 1>>, <<"vendor_id", 16>>, <<"nvdm_type", 8>> >>

\* NiceStruct.to_bytes for one 32-bit bitfield group, read back as one
\* little-endian int: each field masked to its width and shifted by the
\* bits already used
RECURSIVE PackFields(_, _, _, _)
PackFields(fields, obj, i, bitfield_counter) ==
  IF i > Len(fields) THEN Word(0)
  ELSE LET v == BitAnd(obj[fields[i][1]], (2 ^ fields[i][2]) - 1)
           rest == PackFields(fields, obj, i + 1, bitfield_counter + fields[i][2])
           lo == IF bitfield_counter < 16
                 THEN Shl(v, bitfield_counter) % HalfWord ELSE 0
           hi == IF bitfield_counter < 16
                 THEN Shl(v, bitfield_counter) \div HalfWord
                 ELSE Shl(v, bitfield_counter - 16) % HalfWord
       IN <<BitOr(lo, rest[1]), BitOr(hi, rest[2])>>

to_int(fields, obj) == PackFields(fields, obj, 1, 0)

\* NiceStruct.from_bytes, one field: (current_value >> bitfield_counter) & mask
RECURSIVE FieldOffset(_, _, _)
FieldOffset(fields, name, i) ==
  IF fields[i][1] = name THEN 0
  ELSE fields[i][2] + FieldOffset(fields, name, i + 1)

RECURSIVE FieldBits(_, _, _)
FieldBits(fields, name, i) ==
  IF fields[i][1] = name THEN fields[i][2] ELSE FieldBits(fields, name, i + 1)

from_int_field(fields, name, integer) ==
  LET off == FieldOffset(fields, name, 1)
      bits == FieldBits(fields, name, 1)
      over == IF off + bits > 16 THEN off + bits - 16 ELSE 0
  IN IF off >= 16
     THEN BitAnd(Shr(integer[2], off - 16), (2 ^ bits) - 1)
     ELSE BitAnd(Shr(integer[1], off) + Shl(BitAnd(integer[2], (2 ^ over) - 1), 16 - off),
                 (2 ^ bits) - 1)

\* MctpHeader(): all fields 0, then som = 1, eom = 1
MctpHeaderNoSom ==
  [n \in {"version", "rsvd0", "deid", "seid", "tag", "to", "seq", "eom", "som"} |->
     IF n \in {"eom"} THEN 1 ELSE 0]
MctpHeader ==
  [n \in {"version", "rsvd0", "deid", "seid", "tag", "to", "seq", "eom", "som"} |->
     IF n \in {"som", "eom"} THEN 1 ELSE 0]

\* MctpMessageHeader() with nvdm_type set
MctpMessageHeader(nvdm_type) ==
  [n \in {"type", "ic", "vendor_id", "nvdm_type"} |->
     CASE n = "type" -> MCTP_TYPE_VENDOR
       [] n = "vendor_id" -> VENDOR_ID_NVIDIA
       [] n = "nvdm_type" -> nvdm_type
       [] OTHER -> 0]

\* _fields_ of the test's DemoStruct: two plain "I" fields
DemoStructFields == << <<"a">>, <<"b">> >>

\* a field declared with a bit count (three entries in the source's tuples)
IsBitfield(field) == Len(field) = 2

\* the names of a class's fields
FieldNames(fields) == {fields[i][1] : i \in DOMAIN fields}

\* bytearray_view_from_ints: array.array("I", ints) viewed as bytes, four
\* bytes for each int, lowest first (little-endian host)
RECURSIVE bytearray_view_from_ints(_)
bytearray_view_from_ints(ints) ==
  IF ints = <<>> THEN <<>>
  ELSE <<Head(ints)[1] % 256, Head(ints)[1] \div 256,
         Head(ints)[2] % 256, Head(ints)[2] \div 256>>
       \o bytearray_view_from_ints(Tail(ints))

\* ints_from_data(data, 4): the bytes viewed as 32-bit ints
ints_from_data(data) ==
  [i \in 1..(Len(data) \div 4) |->
     <<data[4 * i - 3] + 256 * data[4 * i - 2], data[4 * i - 1] + 256 * data[4 * i]>>]

\* (current_value >> bitfield_counter) & ((1 << bits) - 1)
BitfieldValueNoShift(current_value, bitfield_counter, bits) ==
  BitAnd(current_value[1], (2 ^ bits) - 1)
BitfieldValue(current_value, bitfield_counter, bits) ==
  LET over == IF bitfield_counter + bits > 16 THEN bitfield_counter + bits - 16 ELSE 0
  IN IF bitfield_counter >= 16
     THEN BitAnd(Shr(current_value[2], bitfield_counter - 16), (2 ^ bits) - 1)
     ELSE BitAnd(Shr(current_value[1], bitfield_counter)
                 + Shl(BitAnd(current_value[2], (2 ^ over) - 1), 16 - bitfield_counter),
                 (2 ^ bits) - 1)

\* the loop of NiceStruct.from_bytes over _fields_: a bitfield takes a new
\* unpacked value when bitfield_counter is 0, and the counter returns to 0
\* when the bits of the "I" are used up; a plain field takes the next value
RECURSIVE FromBytesLoop(_, _, _, _, _)
FromBytesLoop(fields, unpacked_values, i, unpacked_pos, bitfield_counter) ==
  IF i > Len(fields) THEN <<>>
  ELSE IF IsBitfield(fields[i])
  THEN LET pos == IF bitfield_counter = 0 THEN unpacked_pos + 1 ELSE unpacked_pos
           bits == fields[i][2]
       IN <<BitfieldValue(unpacked_values[pos], bitfield_counter, bits)>>
          \o FromBytesLoop(fields, unpacked_values, i + 1, pos,
                           IF bitfield_counter + bits = 32 THEN 0
                           ELSE bitfield_counter + bits)
  ELSE <<unpacked_values[unpacked_pos + 1]>>
       \o FromBytesLoop(fields, unpacked_values, i + 1, unpacked_pos + 1, 0)

\* NiceStruct.from_bytes: struct.unpack_from("<I...", bytedata), then setattr
\* of every field
from_bytes(fields, bytedata) ==
  LET values == FromBytesLoop(fields, ints_from_data(bytedata), 1, 0, 0)
  IN [n \in FieldNames(fields) |->
        values[CHOOSE i \in DOMAIN fields : fields[i][1] = n]]

\* bitfield_value |= (value & ((1 << bits) - 1)) << bitfield_counter
BitfieldOr(bitfield_value, value, bitfield_counter, bits) ==
  LET v == BitAnd(value, (2 ^ bits) - 1)
      lo == IF bitfield_counter < 16 THEN Shl(v, bitfield_counter) % HalfWord ELSE 0
      hi == IF bitfield_counter < 16
            THEN Shl(v, bitfield_counter) \div HalfWord
            ELSE Shl(v, bitfield_counter - 16) % HalfWord
  IN <<BitOr(bitfield_value[1], lo), BitOr(bitfield_value[2], hi)>>

\* the loop of NiceStruct.to_bytes over _fields_: packed_values
RECURSIVE ToBytesLoop(_, _, _, _, _)
ToBytesLoop(fields, obj, i, bitfield_value, bitfield_counter) ==
  IF i > Len(fields) THEN <<>>
  ELSE IF IsBitfield(fields[i])
  THEN LET bits == fields[i][2]
           value == BitfieldOr(bitfield_value, obj[fields[i][1]], bitfield_counter, bits)
       IN IF bitfield_counter + bits = 32
          THEN <<value>> \o ToBytesLoop(fields, obj, i + 1, Word(0), 0)
          ELSE ToBytesLoop(fields, obj, i + 1, value, bitfield_counter + bits)
  ELSE <<obj[fields[i][1]]>> \o ToBytesLoop(fields, obj, i + 1, Word(0), 0)

\* NiceStruct.to_bytes: struct.pack("<I...", *packed_values)
to_bytes(fields, obj) == bytearray_view_from_ints(ToBytesLoop(fields, obj, 1, Word(0), 0))

\* NiceStruct.to_int_list
to_int_list(fields, obj) == ints_from_data(to_bytes(fields, obj))

(* ---------------------------- PRC codec ------------------------------- *)

\* prc_knob_read: prc = 0xc; prc |= 0x2 << 8; prc |= knob_id << 16
KnobReadWord(knob_id) ==
  Word(BitOr(BitOr(PRC_KNOB_READ, Shl(PRC_KNOB_PERSIST, 8)), Shl(knob_id, 16)))

\* prc_knob_write: prc = 0xd; prc |= 0x2 << 8; prc |= knob_id << 16
KnobWriteWord(knob_id) ==
  Word(BitOr(BitOr(PRC_KNOB_WRITE, Shl(PRC_KNOB_PERSIST, 8)), Shl(knob_id, 16)))

\* the data list prc_knob_read / prc_knob_write hand to prc_cmd
KnobReadData(knob_id) == <<KnobReadWord(knob_id)>>
KnobWriteDataLowByte(knob_id, value) == <<KnobWriteWord(knob_id), Word(value % 256)>>
KnobWriteData(knob_id, value) == <<KnobWriteWord(knob_id), Word(value)>>

\* nvlink_mask |= 1 << nvlink over the links of S
RECURSIVE SetBits(_)
SetBits(S) ==
  IF S = {} THEN 0
  ELSE LET b == CHOOSE x \in S : TRUE IN BitOr(Shl(1, b), SetBits(S \ {b}))

\* the 64-bit nvlink_mask as four 16-bit quarters, lowest first
NvlinkMask(nvlinks) ==
  [q \in 1..4 |-> SetBits({l - 16 * (q - 1) : l \in {x \in nvlinks : x \div 16 = q - 1}})]

\* prc_block_nvlinks: prc |= (nvlink_mask & 0xffff) << 16;
\* prc_1 = (nvlink_mask >> 16) & 0xffffffff; prc_2 = nvlink_mask >> 48;
\* the data list is [prc, prc_1, prc_2]
BlockNvlinksDataNoHighWord(nvlinks, persistent) ==
  LET m == NvlinkMask(nvlinks)
      prc == BitOr(PRC_NVLINK, Shl(IF persistent THEN 3 ELSE PRC_NOT_PERSISTENT, 8))
  IN IF m[4] = 0 THEN << <<prc, m[1]>>, <<m[2], m[3]>> >>
     ELSE << <<prc, m[1]>>, <<m[2], m[3]>>, <<m[4], 0>> >>
BlockNvlinksData(nvlinks, persistent) ==
  LET m == NvlinkMask(nvlinks)
      prc == BitOr(PRC_NVLINK, Shl(IF persistent THEN 3 ELSE PRC_NOT_PERSISTENT, 8))
  IN << <<prc, m[1]>>, <<m[2], m[3]>>, <<m[4], 0>> >>

\* cdata = mctp_header.to_int_array() + mctp_msg_header.to_int_array() + data
\* (to_int_array is NiceStruct's conversion to a list of 32-bit ints, named
\* to_int_list in utils/nice_struct.py)
FrameCmd(nvdm_type, data) ==
  <<to_int(MctpHeaderFields, MctpHeader),
    to_int(MctpMessageHeaderFields, MctpMessageHeader(nvdm_type))>> \o data

\* prc_knob_read: knob_value = data[0] & 0xffff
KnobReadValueWideMask(data) == WordAnd(data[1], 2147483647)
KnobReadValue(data) == WordAnd(data[1], KnobValueMask)

\* FspRpcError.is_invalid_knob_error
IsInvalidKnobAnyError(fsp_error) == fsp_error # Word(0)
is_invalid_knob_error(fsp_error) == fsp_error = Word(INVALID_KNOB_ERROR)

(* ------------------------------- state -------------------------------- *)

VARIABLES
  impl,            \* which client class drives the channel: "FspRpc" | "FspEmemRpc"
  queue_head,      \* device register queue_head_off(channel_num)
  queue_tail,      \* device register queue_tail_off(channel_num)
  msg_queue_head,  \* device register msg_queue_head_off(channel_num)
  msg_queue_tail,  \* device register msg_queue_tail_off(channel_num)
  emem,            \* words in EMEM at nvdm_emem_base (last writer's content)
  irq,             \* the command-queue head was written and FSP has not looked yet
  boot_done,       \* boot_complete register reads 0xff
  knobs,           \* the device's PRC knob store
  dev,             \* FSP: "idle" | "taken" | "busy" | "responded"
  dev_cmd,         \* the command FSP latched
  fsp_rpc,         \* NvidiaDevice.fsp_rpc: 0 is None, else the client's identity
  client_born,     \* value of resets when the current client was constructed
  resets,          \* hardware resets so far
  task,            \* the host operation in progress
  pc,              \* position inside it
  expired,         \* loop_stamp - timestamp > timeout in the current poll loop
  mdata,           \* words last read from the message queue
  result,          \* how the last host operation ended
  knob_log,        \* knob commands published by the current operation, in order
  ops,             \* operations the caller has started
  mse,             \* the MseRpc object: its context_id
  mnoc,            \* the MNOC mailboxes of the MSE port, as the device sets them
  seen,            \* what the current send read and wrote so far
  prev,            \* the prc_knob_write the caller made last, and how it ended
  nvlink,          \* self.nvlink: the device's NVLink properties
  frag,            \* send_cmd splitting a message: packets built, packets handed over
  poll,            \* a call of poll_register / poll_register_any_bit and its clock
  cli,             \* the command line's --query-ppcie-settings and its handler
  ns               \* a NiceStruct object and the data converted from and to it

qregs == <<queue_head, queue_tail, msg_queue_head, msg_queue_tail>>
devvars == <<boot_done, knobs, dev, dev_cmd>>
hostvars == <<fsp_rpc, client_born, task, pc, expired, mdata, result, knob_log, seen>>
vars == <<impl, queue_head, queue_tail, msg_queue_head, msg_queue_tail, emem, irq,
          boot_done, knobs, dev, dev_cmd, fsp_rpc, client_born, resets, task, pc,
          expired, mdata, result, knob_log, ops, mse, mnoc, seen, prev, nvlink, frag,
          poll, cli, ns>>

\* state of the parts of the tool the FSP queue code does not touch
extvars == <<prev, nvlink, frag, poll, cli, ns>>

\* self.nvdm_emem_base = self.channel_num * 1024
nvdm_emem_base == channel_num * EmemChannelBytes

\* the knobs the model's device stores
ModelKnobs == {PRC_KNOB_ID_2, PRC_KNOB_ID_4, PRC_KNOB_ID_34,
               PRC_KNOB_ID_BAR0_DECOUPLER, PRC_KNOB_ID_CCD, PRC_KNOB_ID_CCM}

\* a knob ID the model's firmware does not know (gpu/prc.py: PRC_KNOB_ID_PPCIE;
\* prc_knob_read takes any id, str_from_knob_id tolerates one outside PrcKnob)
PRC_KNOB_ID_PPCIE == 45

\* knob stores a session can start from
KnobsOff == [k \in ModelKnobs |-> 0]
KnobsOn == [KnobsOff EXCEPT ![PRC_KNOB_ID_CCM] = 1, ![PRC_KNOB_ID_BAR0_DECOUPLER] = 2]
InitKnobStates ==
  {KnobsOff, KnobsOn,
   [KnobsOff EXCEPT ![PRC_KNOB_ID_2] = 1, ![PRC_KNOB_ID_34] = 1],
   [KnobsOff EXCEPT ![PRC_KNOB_ID_CCM] = 1, ![PRC_KNOB_ID_CCD] = 1]}

\* queue registers <<head, tail, msg head, msg tail>> a session can find at
\* start: the reset value, or a stale command or message left in a queue
InitQueueStates ==
  {<<0, 0, 0, 0>>,
   <<nvdm_emem_base, nvdm_emem_base + 8, nvdm_emem_base, nvdm_emem_base>>,
   <<nvdm_emem_base, nvdm_emem_base, nvdm_emem_base, nvdm_emem_base + 16>>}

CcModes == {"on", "devtools", "off"}
ModeArgs == CcModes \cup {"bogus"}

NoTask == [op |-> "idle", mode |-> "none", idx |-> 0, phase |-> "none",
           knob |-> 0, value |-> 0, data |-> <<>>]
NoResult == [kind |-> "none", site |-> "none", error |-> Word(0), data |-> <<>>,
             value |-> 0, at |-> 0]
NoPrev == [knob |-> 0, value |-> 0, kind |-> "none"]
NoFrag == [st |-> "idle", data |-> <<>>, queue |-> <<>>, sent |-> <<>>]
NoWord == <<0 - 1, 0 - 1>>
NoPoll == [st |-> "idle", op |-> "none", name |-> "none", offset |-> 0,
           value |-> <<0, 0>>, mask |-> <<0, 0>>, now_late |-> FALSE, late |-> FALSE,
           data |-> NoWord, read_late |-> FALSE, outcome |-> "none", error |-> <<>>]
NoSeen == [q |-> "none", mq |-> "none", wrote |-> FALSE, pub |-> "none",
           rwrote |-> FALSE, booted |-> FALSE, mhead |-> 0, msize |-> 0]

\* no NiceStruct object yet
NoStruct == [st |-> "none", cls |-> "none", obj |-> <<>>, iterable |-> "none",
             ints |-> <<>>, bytes |-> <<>>, out |-> <<>>, sets |-> 0]

NoCli == [st |-> "idle", idx |-> 0, err |-> NoResult, log |-> <<>>, outcome |-> "none",
          raised |-> NoResult, handler |-> "none", links |-> <<>>, calls |-> <<>>]

Ok(value, at) == [kind |-> "ok", site |-> "return", error |-> Word(0), data |-> <<>>,
                  value |-> value, at |-> at]
Err(kind, site, error, data, at) ==
  [kind |-> kind, site |-> site, error |-> error, data |-> data, value |-> 0, at |-> at]

PollPcs == {"init_boot", "ctor_settle", "boot", "poll_q", "poll_msg",
            "mnoc_ready", "mnoc_credits", "mnoc_recv"}

(* ------------------------------ EMEM ---------------------------------- *)

\* write_emem(data, phys_base): the words of data replace the first len(data)
\* words at phys_base, the rest of EMEM keeps its contents
Overlay(mem, data) ==
  [i \in 1..(IF Len(mem) > Len(data) THEN Len(mem) ELSE Len(data)) |->
     IF i <= Len(data) THEN data[i] ELSE mem[i]]

\* GpuMemPort.read: one word for each offset of range(0, size, 4)
ReadWords(size) == IF size <= 0 THEN 0 ELSE (size + 3) \div 4

\* read_emem(nvdm_emem_base, size)
read_emem(size) ==
  [i \in 1..ReadWords(size) |-> IF i <= Len(emem) THEN emem[i] ELSE Word(0)]

(* ------------------------ the device (FSP) ---------------------------- *)

\* what FSP may answer: a well-formed success ("ok"; "hi" leaves garbage in the
\* top 16 bits of a knob value), or a malformed / failing response
RspKinds == {"ok", "hi", "short", "marker", "echo", "fail", "extra"}

DevSubOp(cmd) == IF Len(cmd) >= 3 THEN WordAnd(cmd[3], 255) ELSE 0
DevKnob(cmd) == IF Len(cmd) >= 3 THEN cmd[3][2] ELSE 0
DevIsRead(cmd) == DevSubOp(cmd) = PRC_KNOB_READ /\ DevKnob(cmd) \in ModelKnobs
DevIsWrite(cmd) ==
  DevSubOp(cmd) = PRC_KNOB_WRITE /\ DevKnob(cmd) \in ModelKnobs /\ Len(cmd) >= 4

DevIsNvlink(cmd) == DevSubOp(cmd) = PRC_NVLINK

\* completion code: 0x1e3 for a knob the firmware does not know
DevCompletion(kind, cmd) ==
  CASE kind = "fail" -> 7
    [] ~(DevIsRead(cmd) \/ DevIsWrite(cmd) \/ DevIsNvlink(cmd)) -> INVALID_KNOB_ERROR
    [] OTHER -> 0

DevPayload(kind, cmd) ==
  IF DevCompletion(kind, cmd) # 0 THEN <<>>
  ELSE (IF DevIsRead(cmd)
        THEN << <<knobs[DevKnob(cmd)], IF kind = "hi" THEN 43981 ELSE 0>> >>
        ELSE <<>>)
       \o (IF kind = "extra" THEN <<Word(0)>> ELSE <<>>)

\* response frame: [mctp header, message header (nvdm_type 0x15), word 2,
\* echoed request nvdm_type, completion code, payload...]
DevResponse(kind, cmd) ==
  LET hdr == to_int(MctpHeaderFields, MctpHeader)
      rsp_type == IF kind = "marker" THEN NVDM_TYPE_RSP - 1 ELSE NVDM_TYPE_RSP
      msg == to_int(MctpMessageHeaderFields, MctpMessageHeader(rsp_type))
      req == IF Len(cmd) >= 2
             THEN from_int_field(MctpMessageHeaderFields, "nvdm_type", cmd[2])
             ELSE 0
      echoed == IF kind = "echo" THEN req + 1 ELSE req
  IN IF kind = "short" THEN <<hdr, msg, Word(0), Word(echoed)>>
     ELSE <<hdr, msg, Word(0), Word(echoed), Word(DevCompletion(kind, cmd))>>
          \o DevPayload(kind, cmd)

\* FSP finishes booting
DevBoot ==
  /\ ~boot_done
  /\ boot_done' = TRUE
  /\ UNCHANGED <<impl, extvars, mse, mnoc, ops, qregs, emem, irq, knobs, dev, dev_cmd, resets, hostvars>>

\* FSP looks at the command queue after a head write and latches the command
DevTake ==
  /\ boot_done /\ irq /\ dev = "idle"
  /\ irq' = FALSE
  /\ IF queue_head # queue_tail
     THEN dev' = "taken" /\ dev_cmd' = read_emem(queue_tail - queue_head + 4)
     ELSE UNCHANGED <<dev, dev_cmd>>
  /\ UNCHANGED <<impl, extvars, mse, mnoc, ops, qregs, emem, boot_done, knobs, resets, hostvars>>

\* FSP marks the command queue empty
DevAck ==
  /\ dev \in {"taken", "responded"}
  /\ queue_head' = queue_tail
  /\ dev' = IF dev = "taken" THEN "busy" ELSE "idle"
  /\ UNCHANGED <<impl, extvars, mse, mnoc, ops, queue_tail, msg_queue_head, msg_queue_tail, emem, irq,
                 boot_done, knobs, dev_cmd, resets, hostvars>>

\* FSP posts its response in EMEM and advances the message-queue tail
DevRespond(kind) ==
  /\ dev \in {"taken", "busy"}
  /\ msg_queue_head = msg_queue_tail
  /\ LET rsp == DevResponse(kind, dev_cmd) IN
       /\ emem' = Overlay(emem, rsp)
       /\ msg_queue_tail' = msg_queue_head + (Len(rsp) - 1) * 4
  /\ knobs' = IF DevIsWrite(dev_cmd) /\ DevCompletion(kind, dev_cmd) = 0
              THEN [knobs EXCEPT ![DevKnob(dev_cmd)] = dev_cmd[4][1]]
              ELSE knobs
  /\ dev' = IF dev = "taken" THEN "responded" ELSE "idle"
  /\ dev_cmd' = <<>>
  /\ UNCHANGED <<impl, extvars, mse, mnoc, ops, queue_head, queue_tail, msg_queue_head, irq, boot_done,
                 resets, hostvars>>

(* --------------------- queue and EMEM primitives ---------------------- *)

\* is_queue_empty / is_msg_queue_empty: mhead == mtail
is_queue_empty == queue_head = queue_tail
is_msg_queue_empty == msg_queue_head = msg_queue_tail

\* the words the current send writes to EMEM: prc_cmd frames its data,
\* send_data writes the list it was given
CData == IF impl = "FspRpc" THEN FrameCmd(NVDM_TYPE_PRC, task.data) ELSE task.data

\* tail written by write_queue_head_tail: nvdm_emem_base + (len(cdata) - 1) * 4
PublishedTailPastEnd(cdata) == nvdm_emem_base + Len(cdata) * 4
PublishedTail(cdata) == nvdm_emem_base + (Len(cdata) - 1) * 4

(* -------------------------- set_cc_mode ------------------------------- *)

\* the knob writes of set_cc_mode, in program order, as <<knob_id, value>>
SetCcModeSeqCcmFirst(mode) ==
  LET cc_mode == IF mode \in {"on", "devtools"} THEN 1 ELSE 0
      cc_dev_mode == IF mode = "devtools" THEN 1 ELSE 0
      bar0_decoupler_val == IF mode = "on" THEN 2 ELSE 0
  IN (IF cc_mode = 1
      THEN << <<PRC_KNOB_ID_2, 0>>, <<PRC_KNOB_ID_4, 0>>, <<PRC_KNOB_ID_34, 0>> >>
      ELSE <<>>)
     \o << <<PRC_KNOB_ID_BAR0_DECOUPLER, bar0_decoupler_val>>,
           <<PRC_KNOB_ID_CCM, cc_mode>>,
           <<PRC_KNOB_ID_CCD, cc_dev_mode>> >>

SetCcModeSeqBar0First(mode) ==
  LET cc_mode == IF mode \in {"on", "devtools"} THEN 1 ELSE 0
      cc_dev_mode == IF mode = "devtools" THEN 1 ELSE 0
      bar0_decoupler_val == IF mode = "on" THEN 2 ELSE 0
  IN << <<PRC_KNOB_ID_BAR0_DECOUPLER, bar0_decoupler_val>> >>
     \o (IF cc_mode = 1
         THEN << <<PRC_KNOB_ID_2, 0>>, <<PRC_KNOB_ID_4, 0>>, <<PRC_KNOB_ID_34, 0>> >>
         ELSE <<>>)
     \o << <<PRC_KNOB_ID_CCD, cc_dev_mode>>,
           <<PRC_KNOB_ID_CCM, cc_mode>> >>

SetCcModeSeqNoCcdClear(mode) ==
  LET cc_mode == IF mode \in {"on", "devtools"} THEN 1 ELSE 0
      cc_dev_mode == IF mode = "devtools" THEN 1 ELSE 0
      bar0_decoupler_val == IF mode = "on" THEN 2 ELSE 0
  IN (IF cc_mode = 1
      THEN << <<PRC_KNOB_ID_2, 0>>, <<PRC_KNOB_ID_4, 0>>, <<PRC_KNOB_ID_34, 0>> >>
      ELSE <<>>)
     \o << <<PRC_KNOB_ID_BAR0_DECOUPLER, bar0_decoupler_val>> >>
     \o (IF cc_dev_mode = 1 THEN << <<PRC_KNOB_ID_CCD, cc_dev_mode>> >> ELSE <<>>)
     \o << <<PRC_KNOB_ID_CCM, cc_mode>> >>

SetCcModeSeq(mode) ==
  LET cc_mode == IF mode \in {"on", "devtools"} THEN 1 ELSE 0
      cc_dev_mode == IF mode = "devtools" THEN 1 ELSE 0
      bar0_decoupler_val == IF mode = "on" THEN 2 ELSE 0
  IN (IF cc_mode = 1
      THEN << <<PRC_KNOB_ID_2, 0>>, <<PRC_KNOB_ID_4, 0>>, <<PRC_KNOB_ID_34, 0>> >>
      ELSE <<>>)
     \o << <<PRC_KNOB_ID_BAR0_DECOUPLER, bar0_decoupler_val>>,
           <<PRC_KNOB_ID_CCD, cc_dev_mode>>,
           <<PRC_KNOB_ID_CCM, cc_mode>> >>

\* the task that reads knob number idx of the sequence (prc_knob_check_and_write
\* starts with prc_knob_read)
CcTask(mode, idx) ==
  [op |-> "set_cc_mode", mode |-> mode, idx |-> idx, phase |-> "read",
   knob |-> SetCcModeSeq(mode)[idx][1], value |-> SetCcModeSeq(mode)[idx][2],
   data |-> KnobReadData(SetCcModeSeq(mode)[idx][1])]

\* set_cc_mode(mode), as the first RPC use of a device object (main() with
\* --set-cc-mode): an invalid mode raises ValueError before _init_fsp_rpc
set_cc_mode(mode) ==
  /\ pc = "idle" /\ ops < MaxOps /\ impl = "FspRpc"
  /\ fsp_rpc = 0
  /\ IF mode \in CcModes
     THEN /\ task' = CcTask(mode, 1)
          /\ pc' = "init"
          /\ result' = NoResult
     ELSE /\ task' = [NoTask EXCEPT !.op = "set_cc_mode", !.mode = mode]
          /\ pc' = "done"
          /\ result' = Err("ValueError", "mode", Word(0), <<>>, 0)
  /\ ops' = ops + 1
  /\ UNCHANGED <<impl, extvars, mse, mnoc, qregs, emem, irq, devvars, fsp_rpc, client_born, resets,
                 expired, mdata, knob_log, seen>>

\* knob ids a caller hands to prc_knob_read (query_cc_settings,
\* query_prc_knobs): one the firmware stores, one it does not know
QueryKnobs == {PRC_KNOB_ID_CCM, PRC_KNOB_ID_PPCIE}

\* a caller's prc_knob_read(knob_id), after _init_fsp_rpc
query_knob(knob_id) ==
  /\ pc = "idle" /\ ops < MaxOps /\ impl = "FspRpc"
  /\ task' = [op |-> "prc_knob_read", mode |-> "none", idx |-> 0, phase |-> "read",
              knob |-> knob_id, value |-> 0, data |-> KnobReadData(knob_id)]
  /\ pc' = "init"
  /\ result' = NoResult
  /\ ops' = ops + 1
  /\ UNCHANGED <<impl, extvars, mse, mnoc, qregs, emem, irq, devvars, fsp_rpc, client_born, resets,
                 expired, mdata, knob_log, seen>>

\* knob ids and 16-bit values of direct prc_knob_write / prc_knob_read calls
RoundTripKnobs == {PRC_KNOB_ID_CCM, PRC_KNOB_ID_34}
KnobValues == {1, 65535}

\* a caller's prc_knob_write(knob_id, value), after _init_fsp_rpc
prc_knob_write(knob_id, value) ==
  /\ pc = "idle" /\ ops < MaxOps /\ impl = "FspRpc"
  /\ task' = [op |-> "prc_knob_write", mode |-> "none", idx |-> 0, phase |-> "write",
              knob |-> knob_id, value |-> value, data |-> KnobWriteData(knob_id, value)]
  /\ pc' = "init"
  /\ result' = NoResult
  /\ ops' = ops + 1
  /\ UNCHANGED <<impl, extvars, mse, mnoc, qregs, emem, irq, devvars, fsp_rpc, client_born,
                 resets, expired, mdata, knob_log, seen>>

\* link lists main() hands to block_nvlinks: --block-nvlink values it checked
\* to be below num_nvlinks, or range(num_nvlinks)
NvlinkLists(number) ==
  {S \in {{0}, {15, 16}, {0, 17}, {31, 32, 47}, {48}, {5, 40, 63}} :
     \A l \in S : l < number}
  \cup {0..(number - 1)}

\* Gpu.block_nvlinks(nvlinks) on a device with FSP:
\* self.fsp_rpc.prc_block_nvlinks(nvlinks, persistent=False)
prc_block_nvlinks(nvlinks) ==
  /\ pc = "idle" /\ ops < MaxOps /\ impl = "FspRpc"
  /\ task' = [op |-> "prc_block_nvlinks", mode |-> "none", idx |-> 0, phase |-> "write",
              knob |-> 0, value |-> nvlinks, data |-> BlockNvlinksData(nvlinks, FALSE)]
  /\ pc' = "init"
  /\ result' = NoResult
  /\ ops' = ops + 1
  /\ UNCHANGED <<impl, extvars, mse, mnoc, qregs, emem, irq, devvars, fsp_rpc, client_born,
                 resets, expired, mdata, knob_log, seen>>

(* ------------------ client construction and resets -------------------- *)

\* where the host goes once the client object exists: the legacy client is
\* built inside _init_fsp_rpc, on the way to a command; the channel object is
\* built on its own
AfterCtor == IF impl = "FspRpc" THEN "boot" ELSE "idle"

\* _init_fsp_rpc: return at once when self.fsp_rpc != None, else wait_for_boot
InitFspRpcNeedsClient(client) == client = 0

_init_fsp_rpc ==
  /\ pc = "init"
  /\ pc' = IF InitFspRpcNeedsClient(fsp_rpc) THEN "init_boot" ELSE "boot"
  /\ expired' = FALSE
  /\ seen' = NoSeen
  /\ UNCHANGED <<impl, extvars, mse, mnoc, ops, qregs, emem, irq, devvars, fsp_rpc, client_born, resets,
                 task, mdata, result, knob_log>>

\* wait_for_boot: poll_register("boot_complete", ...), in _init_fsp_rpc and at
\* the top of prc_cmd; a timeout raises GpuError
wait_for_boot_no_raise ==
  /\ pc \in {"init_boot", "boot"}
  /\ boot_done \/ expired
  /\ pc' = IF pc = "init_boot" THEN "ctor" ELSE "poll_q"
  /\ seen' = [seen EXCEPT !.booted = TRUE]
  /\ expired' = FALSE
  /\ UNCHANGED <<impl, extvars, mse, mnoc, ops, qregs, emem, irq, devvars, fsp_rpc, client_born, resets,
                 task, mdata, result, knob_log>>
wait_for_boot ==
  /\ pc \in {"init_boot", "boot"}
  /\ boot_done \/ expired
  /\ IF boot_done
     THEN /\ pc' = IF pc = "init_boot" THEN "ctor" ELSE "poll_q"
          /\ seen' = [seen EXCEPT !.booted = TRUE]
          /\ UNCHANGED result
     ELSE /\ pc' = "done"
          /\ result' = Err("GpuError", "boot_timeout", Word(0), <<>>, task.idx)
          /\ UNCHANGED seen
  /\ expired' = FALSE
  /\ UNCHANGED <<impl, extvars, mse, mnoc, ops, qregs, emem, irq, devvars, fsp_rpc, client_born, resets,
                 task, mdata, knob_log>>

\* FspRpc.__init__ / FspEmemRpc.__init__ -> reset_rpc_state, first part: both
\* queues empty means nothing is written
reset_rpc_state ==
  /\ pc = "ctor"
  /\ IF is_queue_empty /\ is_msg_queue_empty
     THEN /\ fsp_rpc' = 1
          /\ client_born' = resets
          /\ pc' = AfterCtor
     ELSE /\ pc' = "ctor_settle"
          /\ UNCHANGED <<fsp_rpc, client_born>>
  /\ expired' = FALSE
  /\ UNCHANGED <<impl, extvars, mse, mnoc, ops, qregs, emem, irq, devvars, resets, task, mdata, result,
                 knob_log, seen>>

\* reset_rpc_state: poll_for_msg_queue(timeout_fatal=False) returns on a
\* message or on the timeout
reset_rpc_state_settle ==
  /\ pc = "ctor_settle"
  /\ ~is_msg_queue_empty \/ expired
  /\ pc' = "ctor_reset"
  /\ expired' = FALSE
  /\ UNCHANGED <<impl, extvars, mse, mnoc, ops, qregs, emem, irq, devvars, fsp_rpc, client_born, resets,
                 task, mdata, result, knob_log, seen>>

\* reset_rpc_state: "Reset both queues"
reset_rpc_state_write_cmd_only ==
  /\ pc = "ctor_reset"
  /\ queue_tail' = nvdm_emem_base
  /\ queue_head' = nvdm_emem_base
  /\ irq' = TRUE
  /\ fsp_rpc' = 1
  /\ client_born' = resets
  /\ pc' = AfterCtor
  /\ UNCHANGED <<impl, extvars, mse, mnoc, ops, msg_queue_tail, msg_queue_head, emem, devvars,
                 resets, task, expired, mdata, result, knob_log, seen>>
reset_rpc_state_write ==
  /\ pc = "ctor_reset"
  /\ queue_tail' = nvdm_emem_base
  /\ queue_head' = nvdm_emem_base
  /\ msg_queue_tail' = nvdm_emem_base
  /\ msg_queue_head' = nvdm_emem_base
  /\ irq' = TRUE
  /\ fsp_rpc' = 1
  /\ client_born' = resets
  /\ pc' = AfterCtor
  /\ UNCHANGED <<impl, extvars, mse, mnoc, ops, emem, devvars, resets, task, expired, mdata, result,
                 knob_log, seen>>

\* what a hardware reset does to self.fsp_rpc: reset_with_sbr / reset_with_flr
\* rebuild self.falcons and sysfs_reset touches neither; fsp_rpc is left as is
FspRpcAfterResetCleared(client) == 0
FspRpcAfterReset(client) == client

\* reset_with_os / reset_with_sbr / reset_with_flr between two operations:
\* FSP reboots, its queue registers return to their reset value
reset_device ==
  /\ pc = "idle" /\ impl = "FspRpc"
  /\ resets < MaxResets
  /\ resets' = resets + 1
  /\ fsp_rpc' = FspRpcAfterReset(fsp_rpc)
  /\ boot_done' = FALSE
  /\ queue_head' = 0 /\ queue_tail' = 0
  /\ msg_queue_head' = 0 /\ msg_queue_tail' = 0
  /\ emem' = <<>>
  /\ irq' = FALSE
  /\ dev' = "idle" /\ dev_cmd' = <<>>
  /\ UNCHANGED <<impl, extvars, mse, mnoc, ops, knobs, client_born, task, pc, expired, mdata, result,
                 knob_log, seen>>

\* the caller takes the outcome and goes on
host_return ==
  /\ pc = "done"
  /\ pc' = "idle"
  /\ task' = NoTask
  /\ result' = NoResult
  /\ mdata' = <<>>
  /\ knob_log' = <<>>
  /\ seen' = NoSeen
  /\ expired' = FALSE
  /\ prev' = IF task.op = "prc_knob_write"
             THEN [knob |-> task.knob, value |-> task.value, kind |-> result.kind]
             ELSE NoPrev
  /\ UNCHANGED <<impl, ns, cli, nvlink, frag, poll, mse, mnoc, ops, qregs, emem, irq, devvars, fsp_rpc, client_born,
                 resets>>

\* the condition the poll loop at pc waits for
PollSatisfied ==
  CASE pc \in {"init_boot", "boot"} -> boot_done
    [] pc \in {"ctor_settle", "poll_msg"} -> ~is_msg_queue_empty
    [] pc = "poll_q" -> is_queue_empty
    [] pc = "mnoc_ready" -> mnoc.receive_ready
    [] pc = "mnoc_credits" -> mnoc.credits
    [] pc = "mnoc_recv" -> mnoc.message # <<>>
    [] OTHER -> FALSE

\* perf_counter() passes the deadline of the poll loop the host is in (a loop
\* tests its condition before the deadline, so the deadline only matters while
\* the condition is false)
Tick ==
  /\ pc \in PollPcs
  /\ ~PollSatisfied
  /\ ~expired
  /\ expired' = TRUE
  /\ UNCHANGED <<impl, extvars, mse, mnoc, ops, qregs, emem, irq, devvars, fsp_rpc, client_born, resets,
                 task, pc, mdata, result, knob_log, seen>>

(* ------------------- sending: prc_cmd and send_data ------------------- *)

\* one iteration of a poll loop: the predicate is tested before the deadline
PollForQueueEmptyNoRaise(empty, exp) ==
  IF empty \/ exp THEN "return" ELSE "sleep"
PollForQueueEmpty(empty, exp) ==
  IF empty THEN "return" ELSE IF exp THEN "raise" ELSE "sleep"

\* FspRpc.poll_for_queue_empty (legacy): no look at the message queue
LegacyPollForQueueEmpty(empty, exp) ==
  IF empty THEN "return" ELSE IF exp THEN "raise" ELSE "sleep"

\* prc_cmd after poll_for_queue_empty: both queues are read again and either
\* being non-empty raises GpuError
PrcCmdQueueCheckCmdOnly(head, tail, mhead, mtail) ==
  IF head # tail THEN "cmd_not_empty" ELSE "ok"
PrcCmdQueueCheck(head, tail, mhead, mtail) ==
  IF head # tail THEN "cmd_not_empty"
  ELSE IF mhead # mtail THEN "msg_not_empty"
  ELSE "ok"

\* prc_cmd: self.poll_for_queue_empty()
prc_cmd_poll_queue ==
  /\ pc = "poll_q" /\ impl = "FspRpc"
  /\ LET out == LegacyPollForQueueEmpty(is_queue_empty, expired) IN
       /\ out # "sleep"
       /\ seen' = [seen EXCEPT !.q = IF is_queue_empty THEN "empty" ELSE "nonempty"]
       /\ IF out = "return"
          THEN /\ pc' = "chk"
               /\ UNCHANGED result
          ELSE /\ pc' = "done"
               /\ result' = Err("GpuError", "cmd_queue_timeout", Word(0), <<>>, task.idx)
  /\ expired' = FALSE
  /\ UNCHANGED <<impl, extvars, mse, mnoc, ops, qregs, emem, irq, devvars, fsp_rpc, client_born, resets,
                 task, mdata, knob_log>>

\* prc_cmd: read_queue_state / read_msg_queue_state before the command is built
prc_cmd_check_queues ==
  /\ pc = "chk"
  /\ LET out == PrcCmdQueueCheck(queue_head, queue_tail, msg_queue_head, msg_queue_tail) IN
       IF out = "ok"
       THEN /\ pc' = "emem"
            /\ UNCHANGED result
       ELSE /\ pc' = "done"
            /\ result' = Err("GpuError", out, Word(0), <<>>, task.idx)
  /\ seen' = [seen EXCEPT !.q = IF is_queue_empty THEN "empty" ELSE "nonempty",
                          !.mq = IF is_msg_queue_empty THEN "empty" ELSE "nonempty"]
  /\ UNCHANGED <<impl, extvars, mse, mnoc, ops, qregs, emem, irq, devvars, fsp_rpc, client_born, resets,
                 task, expired, mdata, knob_log>>

\* FspEmemRpc.poll_for_queue_empty, one iteration: return when the command
\* queue is empty; otherwise receive (and drop) an early message, then test
\* the deadline
send_data_poll_queue ==
  /\ pc = "poll_q" /\ impl = "FspEmemRpc"
  /\ LET out == PollForQueueEmpty(is_queue_empty, expired) IN
       /\ seen' = [seen EXCEPT !.q = IF is_queue_empty THEN "empty" ELSE "nonempty"]
       /\ IF out = "return"
          THEN /\ pc' = "emem"
               /\ UNCHANGED <<msg_queue_tail, mdata, result>>
          ELSE /\ IF ~is_msg_queue_empty
                  THEN /\ mdata' = read_emem(msg_queue_tail - msg_queue_head + 4)
                       /\ msg_queue_tail' = msg_queue_head
                  ELSE UNCHANGED <<msg_queue_tail, mdata>>
               /\ IF out = "raise"
                  THEN /\ pc' = "done"
                       /\ result' = Err("GpuRpcTimeout", "cmd_queue_timeout", Word(0), <<>>, 0)
                  ELSE UNCHANGED <<pc, result>>
  /\ expired' = IF pc' = pc THEN expired ELSE FALSE
  /\ UNCHANGED <<impl, extvars, mse, mnoc, ops, queue_head, queue_tail, msg_queue_head, emem, irq, devvars,
                 fsp_rpc, client_born, resets, task, knob_log>>

\* self.falcon.write_emem(cdata, phys_base=self.nvdm_emem_base, port=self.channel_num)
write_emem ==
  /\ pc = "emem"
  /\ emem' = Overlay(emem, CData)
  /\ seen' = [seen EXCEPT !.wrote = TRUE]
  /\ pc' = "tail"
  /\ UNCHANGED <<impl, extvars, mse, mnoc, ops, qregs, irq, devvars, fsp_rpc, client_born, resets, task,
                 expired, mdata, result, knob_log>>

\* write_queue_head_tail, first write: the tail register
write_queue_tail ==
  /\ pc = "tail"
  /\ queue_tail' = PublishedTail(CData)
  /\ seen' = [seen EXCEPT !.wrote = TRUE,
                          !.pub = IF is_msg_queue_empty THEN "empty" ELSE "nonempty"]
  /\ pc' = "head"
  /\ UNCHANGED <<impl, extvars, mse, mnoc, ops, queue_head, msg_queue_head, msg_queue_tail, emem, irq,
                 devvars, fsp_rpc, client_born, resets, task, expired, mdata,
                 result, knob_log>>

\* write_queue_head_tail, second write: the head register; the command is
\* published.  prc_cmd and send_cmd go on to wait for the response, send_data
\* returns
write_queue_head ==
  /\ pc = "head"
  /\ queue_head' = nvdm_emem_base
  /\ irq' = TRUE
  /\ knob_log' = IF impl = "FspRpc"
                 THEN Append(knob_log, <<task.phase, task.knob, task.value>>)
                 ELSE knob_log
  /\ IF task.op = "send_data"
     THEN pc' = "done" /\ result' = Ok(0, 0)
     ELSE pc' = "poll_msg" /\ UNCHANGED result
  /\ expired' = FALSE
  /\ UNCHANGED <<impl, extvars, mse, mnoc, ops, queue_tail, msg_queue_head, msg_queue_tail, emem, devvars,
                 fsp_rpc, client_born, resets, task, mdata, seen>>

(* ----------------- receiving: prc_cmd and receive_data ---------------- *)

\* a caller's receive_data(timeout)
receive_data ==
  /\ pc = "idle" /\ ops < MaxOps /\ impl = "FspEmemRpc"
  /\ task' = [NoTask EXCEPT !.op = "receive_data"]
  /\ pc' = "poll_msg"
  /\ result' = NoResult
  /\ seen' = NoSeen
  /\ expired' = FALSE
  /\ ops' = ops + 1
  /\ UNCHANGED <<impl, extvars, mse, mnoc, qregs, emem, irq, devvars, fsp_rpc, client_born, resets,
                 mdata, knob_log>>

\* what the timeout of poll_for_msg_queue raises: GpuError in the legacy
\* client, GpuRpcTimeout in FspEmemRpc (timeout_fatal=True)
MsgTimeoutErrorGeneric == "GpuError"
MsgTimeoutError == IF impl = "FspRpc" THEN "GpuError" ELSE "GpuRpcTimeout"

\* poll_for_msg_queue: return on mhead != mtail, raise once the deadline passed
poll_for_msg_queue ==
  /\ pc = "poll_msg"
  /\ ~is_msg_queue_empty \/ expired
  /\ IF ~is_msg_queue_empty
     THEN /\ pc' = "read"
          /\ UNCHANGED result
     ELSE /\ pc' = "done"
          /\ result' = Err(MsgTimeoutError, "msg_timeout", Word(0), <<>>, task.idx)
  /\ expired' = FALSE
  /\ UNCHANGED <<impl, extvars, mse, mnoc, ops, qregs, emem, irq, devvars, fsp_rpc, client_born, resets,
                 task, mdata, knob_log, seen>>

\* mhead, mtail = read_msg_queue_state(); msize = mtail - mhead + 4;
\* mdata = read_emem(nvdm_emem_base, msize)
read_msg ==
  /\ pc = "read"
  /\ mdata' = read_emem(msg_queue_tail - msg_queue_head + 4)
  /\ seen' = [seen EXCEPT !.mhead = msg_queue_head,
                          !.msize = msg_queue_tail - msg_queue_head + 4]
  /\ pc' = "reset_tail"
  /\ UNCHANGED <<impl, extvars, mse, mnoc, ops, qregs, emem, irq, devvars, fsp_rpc, client_born, resets,
                 task, expired, result, knob_log>>

\* the checks prc_cmd makes on a response, in order
PrcCmdValidateNoEcho(msize, md) ==
  IF msize < 5 * 4 THEN "short"
  ELSE IF from_int_field(MctpMessageHeaderFields, "nvdm_type", md[2]) # NVDM_TYPE_RSP
       THEN "nvdm_type"
  ELSE IF md[5] # Word(0) THEN "completion"
  ELSE "ok"
PrcCmdValidate(msize, md) ==
  IF msize < 5 * 4 THEN "short"
  ELSE IF from_int_field(MctpMessageHeaderFields, "nvdm_type", md[2]) # NVDM_TYPE_RSP
       THEN "nvdm_type"
  ELSE IF md[4] # Word(NVDM_TYPE_PRC) THEN "req_type"
  ELSE IF md[5] # Word(0) THEN "completion"
  ELSE "ok"

\* return mdata[5:]
PrcCmdPayload(md) == SubSeq(md, 6, Len(md))

\* the error prc_cmd raises for a rejected response: always GpuError
PrcCmdError(verdict, md, at) ==
  Err("GpuError", verdict, IF verdict = "completion" THEN md[5] ELSE Word(0), md, at)

\* the knob operation that follows the current one in set_cc_mode, if any
NextKnobTask ==
  IF task.op = "set_cc_mode" /\ task.idx < Len(SetCcModeSeq(task.mode))
  THEN CcTask(task.mode, task.idx + 1)
  ELSE NoTask

\* what prc_knob_read / prc_knob_write / prc_knob_check_and_write do with the
\* payload prc_cmd returned: "raise", "write" (old_value != value), "next"
\* (another knob of set_cc_mode) or "return"
KnobStepAlwaysWrite(data) ==
  IF task.phase = "read"
  THEN IF Len(data) # 1 THEN "raise"
       ELSE IF task.op = "set_cc_mode" THEN "write"
       ELSE IF NextKnobTask # NoTask THEN "next"
       ELSE "return"
  ELSE IF Len(data) # 0 THEN "raise"
       ELSE IF NextKnobTask # NoTask THEN "next"
       ELSE "return"
KnobStep(data) ==
  IF task.phase = "read"
  THEN IF Len(data) # 1 THEN "raise"
       ELSE IF task.op = "set_cc_mode" /\ KnobReadValue(data) # task.value THEN "write"
       ELSE IF NextKnobTask # NoTask THEN "next"
       ELSE "return"
  ELSE IF Len(data) # 0 THEN "raise"
       ELSE IF NextKnobTask # NoTask THEN "next"
       ELSE "return"

\* prc_cmd from write_msg_queue_tail(mhead) to its return or raise, and the
\* caller's handling of the payload
prc_cmd_finish_validate_first ==
  /\ pc = "reset_tail" /\ impl = "FspRpc"
  /\ msg_queue_tail' = IF PrcCmdValidate(seen.msize, mdata) = "ok"
                       THEN seen.mhead ELSE msg_queue_tail
  /\ LET verdict == PrcCmdValidate(seen.msize, mdata)
         data == PrcCmdPayload(mdata)
         step == IF verdict = "ok" THEN KnobStep(data) ELSE "raise"
     IN /\ result' =
             IF verdict # "ok" THEN PrcCmdError(verdict, mdata, task.idx)
             ELSE IF step = "raise"
                  THEN Err("GpuError", "response_size", Word(0), data, task.idx)
             ELSE IF step = "return"
                  THEN Ok(IF task.phase = "read" THEN KnobReadValue(data) ELSE 0, task.idx)
             ELSE result
        /\ task' =
             IF step = "write"
             THEN [task EXCEPT !.phase = "write",
                               !.data = KnobWriteData(task.knob, task.value)]
             ELSE IF step = "next" THEN NextKnobTask
             ELSE task
        /\ pc' = IF step \in {"write", "next"} THEN "boot" ELSE "done"
        /\ seen' = IF step \in {"write", "next"} THEN NoSeen
                   ELSE [seen EXCEPT !.rwrote = TRUE]
  /\ UNCHANGED <<impl, extvars, mse, mnoc, ops, queue_head, queue_tail, msg_queue_head, emem, irq, devvars,
                 fsp_rpc, client_born, resets, expired, mdata, knob_log>>
prc_cmd_finish ==
  /\ pc = "reset_tail" /\ impl = "FspRpc"
  /\ msg_queue_tail' = seen.mhead
  /\ LET verdict == PrcCmdValidate(seen.msize, mdata)
         data == PrcCmdPayload(mdata)
         step == IF verdict = "ok" THEN KnobStep(data) ELSE "raise"
     IN /\ result' =
             IF verdict # "ok" THEN PrcCmdError(verdict, mdata, task.idx)
             ELSE IF step = "raise"
                  THEN Err("GpuError", "response_size", Word(0), data, task.idx)
             ELSE IF step = "return"
                  THEN Ok(IF task.phase = "read" THEN KnobReadValue(data) ELSE 0, task.idx)
             ELSE result
        /\ task' =
             IF step = "write"
             THEN [task EXCEPT !.phase = "write",
                               !.data = KnobWriteData(task.knob, task.value)]
             ELSE IF step = "next" THEN NextKnobTask
             ELSE task
        /\ pc' = IF step \in {"write", "next"} THEN "boot" ELSE "done"
        /\ seen' = IF step \in {"write", "next"} THEN NoSeen
                   ELSE [seen EXCEPT !.rwrote = TRUE]
  /\ UNCHANGED <<impl, extvars, mse, mnoc, ops, queue_head, queue_tail, msg_queue_head, emem, irq, devvars,
                 fsp_rpc, client_born, resets, expired, mdata, knob_log>>

\* receive_data: write_msg_queue_tail(mhead); return mdata
receive_data_finish ==
  /\ pc = "reset_tail" /\ impl = "FspEmemRpc" /\ task.op = "receive_data"
  /\ msg_queue_tail' = seen.mhead
  /\ seen' = [seen EXCEPT !.rwrote = TRUE]
  /\ result' = [Ok(0, 0) EXCEPT !.data = mdata]
  /\ pc' = "done"
  /\ UNCHANGED <<impl, extvars, mse, mnoc, ops, queue_head, queue_tail, msg_queue_head, emem, irq, devvars,
                 fsp_rpc, client_born, resets, task, expired, mdata, knob_log>>

(* ---------------------- FspEmemRpc callers ---------------------------- *)

\* word lists a caller hands to send_data: a framed knob read, a bare word
SendInputs == {FrameCmd(NVDM_TYPE_PRC, KnobReadData(PRC_KNOB_ID_CCM)), <<Word(1)>>}

\* a caller's send_data(data)
send_data(data) ==
  /\ pc = "idle" /\ ops < MaxOps /\ impl = "FspEmemRpc"
  /\ task' = [NoTask EXCEPT !.op = "send_data", !.data = data]
  /\ pc' = "poll_q"
  /\ result' = NoResult
  /\ seen' = NoSeen
  /\ expired' = FALSE
  /\ ops' = ops + 1
  /\ UNCHANGED <<impl, extvars, mse, mnoc, qregs, emem, irq, devvars, fsp_rpc, client_born, resets,
                 mdata, knob_log>>

\* send_cmd of the packaged FspRpc (gpu/fsp_rpc.py is not part of this tree):
\* frame the command, send_data, receive_data, validate
send_cmd(knob_id) ==
  /\ pc = "idle" /\ ops < MaxOps /\ impl = "FspEmemRpc"
  /\ task' = [NoTask EXCEPT !.op = "send_cmd", !.phase = "read", !.knob = knob_id,
                            !.data = FrameCmd(NVDM_TYPE_PRC, KnobReadData(knob_id))]
  /\ pc' = "poll_q"
  /\ result' = NoResult
  /\ seen' = NoSeen
  /\ expired' = FALSE
  /\ ops' = ops + 1
  /\ UNCHANGED <<impl, extvars, mse, mnoc, qregs, emem, irq, devvars, fsp_rpc, client_born, resets,
                 mdata, knob_log>>

\* send_cmd on a message that may not fit in one packet (gpu/fsp_rpc.py is not
\* part of this tree).  The MCTP header of packet number i of count: som on
\* the first only, eom on the last only, seq one more, mod 4, than the packet
\* before
PacketHeader(i, count) ==
  [MctpHeader EXCEPT !["som"] = IF i = 1 THEN MctpHeader["som"] ELSE 0,
                     !["eom"] = IF i = count THEN MctpHeader["eom"] ELSE 0,
                     !["seq"] = (i - 1) % 4]

\* payload words the first packet has room for beside the two headers, and a
\* later packet beside its MCTP header
FirstRoom(max_words) == max_words - 2
LaterRoom(max_words) == max_words - 1

\* number of packets for a payload of n words: one when headers and payload
\* fit, otherwise a full first packet and the rest in later packets
PacketCount(n, max_words) ==
  IF n <= FirstRoom(max_words) THEN 1
  ELSE 1 + ((n - FirstRoom(max_words)) + LaterRoom(max_words) - 1) \div LaterRoom(max_words)

Min(a, b) == IF a < b THEN a ELSE b

\* the packets of a message, in order: the first carries both headers and as
\* much payload as fits, each later one the MCTP header and the next payload
\* words
SplitCmd(nvdm_type, data, max_words) ==
  LET count == PacketCount(Len(data), max_words)
      from(i) == IF i = 1 THEN 1
                 ELSE FirstRoom(max_words) + (i - 2) * LaterRoom(max_words) + 1
      upto(i) == Min(Len(data), FirstRoom(max_words) + (i - 1) * LaterRoom(max_words))
  IN [i \in 1..count |->
        IF i = 1
        THEN <<to_int(MctpHeaderFields, PacketHeader(1, count)),
               to_int(MctpMessageHeaderFields, MctpMessageHeader(nvdm_type))>>
             \o SubSeq(data, from(1), upto(1))
        ELSE <<to_int(MctpHeaderFields, PacketHeader(i, count))>>
             \o SubSeq(data, from(i), upto(i))]

\* payload lengths, in words, around the packet boundaries
PayloadLens(max_words) ==
  {1, FirstRoom(max_words), FirstRoom(max_words) + 1,
   FirstRoom(max_words) + LaterRoom(max_words),
   FirstRoom(max_words) + LaterRoom(max_words) + 1,
   FirstRoom(max_words) + 2 * LaterRoom(max_words),
   FirstRoom(max_words) + 2 * LaterRoom(max_words) + 1,
   FirstRoom(max_words) + 3 * LaterRoom(max_words),
   FirstRoom(max_words) + 3 * LaterRoom(max_words) + 1,
   FirstRoom(max_words) + 4 * LaterRoom(max_words) + 7}

\* an opaque payload of n words: word i is first + i
Payload(n, first) == [i \in 1..n |-> Word(first + i)]

\* send_cmd(nvdm_type, payload): build the packets
send_cmd_split(n, first) ==
  /\ pc = "idle" /\ ops < MaxOps /\ impl = "FspEmemRpc" /\ frag.st = "idle"
  /\ frag' = [st |-> "sending", data |-> Payload(n, first),
              queue |-> SplitCmd(NVDM_TYPE_PRC, Payload(n, first), max_packet_size_bytes \div 4),
              sent |-> <<>>]
  /\ ops' = ops + 1
  /\ UNCHANGED <<impl, ns, cli, prev, nvlink, poll, mse, mnoc, qregs, emem, irq, devvars, fsp_rpc, client_born,
                 resets, task, pc, expired, mdata, result, knob_log, seen>>

\* send_cmd: hand the next packet to the channel
send_cmd_packet ==
  /\ frag.st = "sending" /\ frag.queue # <<>>
  /\ frag' = [frag EXCEPT !.queue = Tail(frag.queue),
                          !.sent = Append(frag.sent, Head(frag.queue))]
  /\ UNCHANGED <<impl, ns, cli, prev, nvlink, poll, mse, mnoc, ops, qregs, emem, irq, devvars, fsp_rpc,
                 client_born, resets, task, pc, expired, mdata, result, knob_log, seen>>

\* send_cmd: every packet sent
send_cmd_sent ==
  /\ frag.st = "sending" /\ frag.queue = <<>>
  /\ frag' = [frag EXCEPT !.st = "idle"]
  /\ UNCHANGED <<impl, ns, cli, prev, nvlink, poll, mse, mnoc, ops, qregs, emem, irq, devvars, fsp_rpc,
                 client_born, resets, task, pc, expired, mdata, result, knob_log, seen>>

\* the error send_cmd raises for a rejected response: FspRpcError(error, data)
\* for a nonzero completion code, GpuError for a malformed response
SendCmdError(verdict, md) ==
  IF verdict = "completion"
  THEN Err("FspRpcError", verdict, md[5], md, 0)
  ELSE Err("GpuError", verdict, Word(0), md, 0)

\* send_cmd from the return of receive_data on
send_cmd_finish ==
  /\ pc = "reset_tail" /\ impl = "FspEmemRpc" /\ task.op = "send_cmd"
  /\ msg_queue_tail' = seen.mhead
  /\ seen' = [seen EXCEPT !.rwrote = TRUE]
  /\ LET verdict == PrcCmdValidate(seen.msize, mdata) IN
       result' = IF verdict = "ok"
                 THEN [Ok(0, 0) EXCEPT !.data = PrcCmdPayload(mdata)]
                 ELSE SendCmdError(verdict, mdata)
  /\ pc' = "done"
  /\ UNCHANGED <<impl, extvars, mse, mnoc, ops, queue_head, queue_tail, msg_queue_head, emem, irq, devvars,
                 fsp_rpc, client_born, resets, task, expired, mdata, knob_log>>

(* ------------------- the command line: PPCIe query -------------------- *)

\* the knob read that starts at pc "poll_q": fsp_rpc.prc_knob_read(knob_id)
\* through send_cmd
KnobReadTask(knob_id) ==
  [NoTask EXCEPT !.op = "send_cmd", !.phase = "read", !.knob = knob_id,
                 !.data = FrameCmd(NVDM_TYPE_PRC, KnobReadData(knob_id))]

\* knobs query_prc_knobs reads, in the order of PrcKnob
PrcKnobList == <<PRC_KNOB_ID_CCD, PRC_KNOB_ID_CCM>>

\* isinstance(err, FspRpcError) and err.is_invalid_knob_error
IsFwUpdateNeeded(err) == err.kind = "FspRpcError" /\ is_invalid_knob_error(err.error)

\* main with --query-ppcie-settings: gpu.query_ppcie_settings(), which reads
\* the PPCIE knob
cli_query_ppcie_settings ==
  /\ pc = "idle" /\ ops < MaxOps /\ impl = "FspEmemRpc"
  /\ cli.st = "idle" /\ frag.st = "idle" /\ poll.st = "idle"
  /\ cli' = [NoCli EXCEPT !.st = "query"]
  /\ task' = KnobReadTask(PRC_KNOB_ID_PPCIE)
  /\ pc' = "poll_q"
  /\ result' = NoResult
  /\ seen' = NoSeen
  /\ expired' = FALSE
  /\ ops' = ops + 1
  /\ UNCHANGED <<impl, ns, prev, nvlink, frag, poll, mse, mnoc, qregs, emem, irq, devvars, fsp_rpc,
                 client_born, resets, mdata, knob_log>>

\* query_ppcie_settings returned or raised.  On a return the settings are
\* printed.  In `except GpuError as err`: the invalid-knob error is reported
\* and the run fails (sys.exit(1) in main, return False per device); any
\* other error has its traceback printed and the debug dump made, and
\* query_prc_knobs starts
cli_query_ended ==
  /\ pc = "done" /\ cli.st = "query"
  /\ IF result.kind = "ok"
     THEN /\ cli' = [cli EXCEPT !.st = "exited", !.log = <<"info_settings">>,
                                !.outcome = "ok"]
          /\ UNCHANGED <<task, pc, result, seen, expired>>
     ELSE IF IsFwUpdateNeeded(result)
     THEN /\ cli' = [cli EXCEPT !.st = "exited", !.err = result,
                                !.log = <<"error_fw_update">>, !.outcome = "failure"]
          /\ UNCHANGED <<task, pc, result, seen, expired>>
     ELSE /\ cli' = [cli EXCEPT !.st = "knobs", !.idx = 1, !.err = result,
                                !.log = <<"print_tb", "debug_dump">>]
          /\ task' = KnobReadTask(PrcKnobList[1])
          /\ pc' = "poll_q"
          /\ result' = NoResult
          /\ seen' = NoSeen
          /\ expired' = FALSE
  /\ UNCHANGED <<impl, ns, prev, nvlink, frag, poll, mse, mnoc, ops, qregs, emem, irq, devvars,
                 fsp_rpc, client_born, resets, mdata, knob_log>>

\* query_prc_knobs inside the handler: a knob read returned or raised.  A
\* raise leaves the handler at once; after the last knob the knobs are
\* printed and the bare `raise` raises the handled error again
cli_query_prc_knobs ==
  /\ pc = "done" /\ cli.st = "knobs"
  /\ IF result.kind # "ok"
     THEN /\ cli' = [cli EXCEPT !.st = "exited", !.outcome = "raised", !.raised = result]
          /\ UNCHANGED <<task, pc, result, seen, expired>>
     ELSE IF cli.idx = Len(PrcKnobList)
     THEN /\ cli' = [cli EXCEPT !.st = "exited", !.log = Append(cli.log, "debug_knobs"),
                                !.outcome = "raised", !.raised = cli.err]
          /\ UNCHANGED <<task, pc, result, seen, expired>>
     ELSE /\ cli' = [cli EXCEPT !.idx = cli.idx + 1]
          /\ task' = KnobReadTask(PrcKnobList[cli.idx + 1])
          /\ pc' = "poll_q"
          /\ result' = NoResult
          /\ seen' = NoSeen
          /\ expired' = FALSE
  /\ UNCHANGED <<impl, ns, prev, nvlink, frag, poll, mse, mnoc, ops, qregs, emem, irq, devvars,
                 fsp_rpc, client_born, resets, mdata, knob_log>>

\* the run is over; the next one starts from an idle tool
cli_exit ==
  /\ pc = "done" /\ cli.st = "exited"
  /\ cli' = NoCli
  /\ task' = NoTask
  /\ pc' = "idle"
  /\ result' = NoResult
  /\ seen' = NoSeen
  /\ mdata' = <<>>
  /\ expired' = FALSE
  /\ UNCHANGED <<impl, ns, prev, nvlink, frag, poll, mse, mnoc, ops, qregs, emem, irq, devvars,
                 fsp_rpc, client_born, resets, knob_log>>

(* ------------------ the command line: NVLink blocking ----------------- *)

\* the two handlers of --block-nvlink / --block-all-nvlinks: main() of
\* cli/main.py and the per-device handler of cli/per_gpu_nvswitch.py
LinkHandlers == {"main", "per_gpu_nvswitch"}

\* link < 0 or link >= num_nvlinks
InvalidLink(link, num_nvlinks) == link < 0 \/ link >= num_nvlinks

\* links_to_block: range(num_nvlinks) for --block-all-nvlinks, else the
\* list given with --block-nvlink
LinksToBlock(num_nvlinks) ==
  {[i \in 1..num_nvlinks |-> i - 1], <<5>>, <<0, 1>>, <<0, 20>>, <<20, 0>>, <<1, 2, 40>>}

\* where in the loop over links_to_block the handler calls block_nvlinks:
\* "after" the loop in main(), inside its "body" in per_gpu_nvswitch
BlockCallSite(handler) == IF handler = "main" THEN "after" ELSE "body"

\* device.block_nvlinks(links_to_block) -> fsp_rpc.prc_block_nvlinks(nvlinks,
\* persistent=False)
BlockNvlinksTask(links) ==
  [op |-> "prc_block_nvlinks", mode |-> "none", idx |-> 0, phase |-> "write",
   knob |-> 0, value |-> {links[i] : i \in DOMAIN links},
   data |-> BlockNvlinksData({links[i] : i \in DOMAIN links}, FALSE)]

\* a run of the tool with --block-nvlink or --block-all-nvlinks
cli_block_nvlink(handler, links) ==
  /\ pc = "idle" /\ ops < MaxOps /\ impl = "FspRpc" /\ cli.st = "idle"
  /\ cli' = [NoCli EXCEPT !.st = "links", !.handler = handler, !.links = links, !.idx = 1]
  /\ ops' = ops + 1
  /\ UNCHANGED <<impl, ns, prev, nvlink, frag, poll, mse, mnoc, qregs, emem, irq, devvars,
                 fsp_rpc, client_born, resets, task, pc, expired, mdata, result, knob_log,
                 seen>>

\* one pass of `for link in links_to_block`, or the statement after the loop
cli_check_link ==
  /\ pc = "idle" /\ cli.st = "links"
  /\ LET over == cli.idx > Len(cli.links)
         invalid == ~over /\ InvalidLink(cli.links[cli.idx], nvlink.number)
         call == /\ ~invalid
                 /\ BlockCallSite(cli.handler) = (IF over THEN "after" ELSE "body")
     IN /\ cli' = IF invalid
                  THEN [cli EXCEPT !.st = "exited", !.outcome = "failure",
                                   !.log = Append(cli.log, "error_invalid_link")]
                  ELSE IF call
                  THEN [cli EXCEPT !.st = "blocking",
                                   !.calls = Append(cli.calls, cli.links)]
                  ELSE IF over
                  THEN [cli EXCEPT !.st = "exited", !.outcome = "ok"]
                  ELSE [cli EXCEPT !.idx = cli.idx + 1]
        /\ IF call
           THEN /\ task' = BlockNvlinksTask(cli.links)
                /\ pc' = "init"
                /\ result' = NoResult
           ELSE UNCHANGED <<task, pc, result>>
  /\ UNCHANGED <<impl, ns, prev, nvlink, frag, poll, mse, mnoc, ops, qregs, emem, irq, devvars,
                 fsp_rpc, client_born, resets, expired, mdata, knob_log, seen>>

\* block_nvlinks returned or raised: info(...), and back to the loop when the
\* call was made inside it
cli_block_returned ==
  /\ pc = "done" /\ cli.st = "blocking"
  /\ cli' = IF result.kind # "ok"
            THEN [cli EXCEPT !.st = "exited", !.outcome = "raised", !.raised = result]
            ELSE IF cli.idx > Len(cli.links)
            THEN [cli EXCEPT !.st = "exited", !.outcome = "ok",
                             !.log = Append(cli.log, "info_blocked")]
            ELSE [cli EXCEPT !.st = "links", !.idx = cli.idx + 1,
                             !.log = Append(cli.log, "info_blocked")]
  /\ task' = NoTask
  /\ pc' = "idle"
  /\ result' = NoResult
  /\ mdata' = <<>>
  /\ knob_log' = <<>>
  /\ seen' = NoSeen
  /\ expired' = FALSE
  /\ UNCHANGED <<impl, ns, prev, nvlink, frag, poll, mse, mnoc, ops, qregs, emem, irq, devvars,
                 fsp_rpc, client_born, resets>>

\* the run is over
cli_links_exit ==
  /\ pc = "idle" /\ cli.st = "exited"
  /\ cli' = NoCli
  /\ UNCHANGED <<impl, ns, prev, nvlink, frag, poll, mse, mnoc, ops, qregs, emem, irq, devvars,
                 resets, hostvars>>

(* --------------------------- poll_register ---------------------------- *)

\* the top half of a value the device returns for a failed read
BADF == 47839

\* w & mask on two 32-bit words
WordAndWord(w, mask) == <<BitAnd(w[1], mask[1]), BitAnd(w[2], mask[2])>>

\* Gpu._is_read_good / NvSwitch._is_read_good: data >> 16 != 0xbadf
IsReadGoodAlways(data) == TRUE
_is_read_good(data) == data[2] # BADF

\* Gpu.read raises GpuError for a value that is not good; read_bad_ok returns
\* whatever bar0.read32 returned
read(data) == IF _is_read_good(data) THEN data ELSE "GpuError"
read_bad_ok(data) == data

\* poll_register's read: read_bad_ok when value >> 16 == 0xbadf, else read;
\* `except: error(...); raise` passes the GpuError of read on
PollRegisterReadSkipBad(value, data) ==
  IF value[2] = BADF THEN read_bad_ok(data)
  ELSE IF read(data) = "GpuError" THEN "sleep" ELSE read(data)
PollRegisterRead(value, data) ==
  IF value[2] = BADF THEN read_bad_ok(data) ELSE read(data)

\* poll_register after the read: return when reg & mask == value, raise the
\* timeout GpuError when loop_stamp - timestamp > timeout, sleep otherwise
PollRegisterDeadlineFirst(value, mask, reg, late) ==
  IF late THEN "timeout"
  ELSE IF WordAndWord(reg, mask) = value THEN "return"
  ELSE "sleep"
PollRegister(value, mask, reg, late) ==
  IF WordAndWord(reg, mask) = value THEN "return"
  ELSE IF late THEN "timeout"
  ELSE "sleep"

\* poll_register_any_bit after the read: return when reg & mask != 0
PollRegisterAnyBit(mask, reg, late) ==
  IF WordAndWord(reg, mask) # <<0, 0>> THEN "return"
  ELSE IF late THEN "timeout"
  ELSE "sleep"

\* registers polled: boot_complete of the GPU and soe_boot of the switch
PollNames == {<<"boot_complete", 131260>>, <<"soe_boot", 165100>>}
\* expected values and masks, 0xbadf-shaped ones among them
PollValues == {<<0, 0>>, <<1, 0>>, <<255, 0>>, <<22048, BADF>>}
PollMasks == {<<65535, 65535>>, <<65535, 0>>, <<6, 0>>}
\* what bar0.read32 may return
RegValues == {<<0, 0>>, <<1, 0>>, <<255, 0>>, <<22048, BADF>>, <<1, BADF>>, <<65535, 65535>>}

\* poll_register(name, offset, value, timeout, mask=mask): timestamp = perf_counter()
poll_register(name, value, mask) ==
  /\ pc = "idle" /\ poll.st = "idle" /\ frag.st = "idle"
  /\ poll' = [NoPoll EXCEPT !.st = "stamp", !.op = "poll_register", !.name = name[1],
                            !.offset = name[2], !.value = value, !.mask = mask]
  /\ UNCHANGED <<impl, ns, cli, prev, nvlink, frag, mse, mnoc, ops, qregs, emem, irq, devvars, resets,
                 hostvars>>

\* poll_register_any_bit(name, offset, mask, timeout)
poll_register_any_bit(name, mask) ==
  /\ pc = "idle" /\ poll.st = "idle" /\ frag.st = "idle"
  /\ poll' = [NoPoll EXCEPT !.st = "stamp", !.op = "poll_register_any_bit",
                            !.name = name[1], !.offset = name[2], !.mask = mask]
  /\ UNCHANGED <<impl, ns, cli, prev, nvlink, frag, mse, mnoc, ops, qregs, emem, irq, devvars, resets,
                 hostvars>>

\* loop_stamp = perf_counter()
poll_loop_stamp ==
  /\ poll.st = "stamp"
  /\ poll' = [poll EXCEPT !.st = "read", !.late = poll.now_late]
  /\ UNCHANGED <<impl, ns, cli, prev, nvlink, frag, mse, mnoc, ops, qregs, emem, irq, devvars, resets,
                 hostvars>>

\* the rest of one iteration: the read, the test of the value, the test of the
\* deadline; data is what the device returns
poll_read(data) ==
  /\ poll.st = "read"
  /\ LET reg == IF poll.op = "poll_register" THEN PollRegisterRead(poll.value, data)
                ELSE read(data)
         out == IF reg = "GpuError" THEN "read_error"
                ELSE IF reg = "sleep" THEN "sleep"
                ELSE IF poll.op = "poll_register"
                THEN PollRegister(poll.value, poll.mask, reg, poll.late)
                ELSE PollRegisterAnyBit(poll.mask, reg, poll.late)
     IN poll' = [poll EXCEPT
                   !.st = IF out = "sleep" THEN "stamp" ELSE "done",
                   !.data = data,
                   !.read_late = poll.now_late,
                   !.outcome = IF out = "sleep" THEN "none" ELSE out,
                   !.error = CASE out = "timeout" /\ poll.op = "poll_register" ->
                                    <<"GpuError", poll.name, poll.offset, reg, poll.value>>
                               [] out = "timeout" /\ poll.op # "poll_register" ->
                                    <<"GpuError", poll.name, poll.offset, reg, poll.mask>>
                               [] out = "read_error" -> <<"GpuError", poll.offset, data>>
                               [] OTHER -> <<>>]
  /\ UNCHANGED <<impl, ns, cli, prev, nvlink, frag, mse, mnoc, ops, qregs, emem, irq, devvars, resets,
                 hostvars>>

\* the caller has the return or the exception
poll_done ==
  /\ poll.st = "done"
  /\ poll' = NoPoll
  /\ UNCHANGED <<impl, ns, cli, prev, nvlink, frag, mse, mnoc, ops, qregs, emem, irq, devvars, resets,
                 hostvars>>

\* perf_counter() - timestamp passes timeout
PollTick ==
  /\ poll.st \in {"stamp", "read"} /\ ~poll.now_late
  /\ poll' = [poll EXCEPT !.now_late = TRUE]
  /\ UNCHANGED <<impl, ns, cli, prev, nvlink, frag, mse, mnoc, ops, qregs, emem, irq, devvars, resets,
                 hostvars>>

(* ------------------------- specifications ----------------------------- *)

InitRegs ==
  /\ \E q \in InitQueueStates :
       /\ queue_head = q[1] /\ queue_tail = q[2]
       /\ msg_queue_head = q[3] /\ msg_queue_tail = q[4]
  /\ emem = <<>>
  /\ irq = FALSE

InitHost ==
  /\ fsp_rpc = 0 /\ client_born = 0 /\ resets = 0 /\ ops = 0
  /\ task = NoTask
  /\ expired = FALSE
  /\ mdata = <<>>
  /\ result = NoResult
  /\ knob_log = <<>>
  /\ seen = NoSeen
  /\ prev = NoPrev
  /\ frag = NoFrag
  /\ poll = NoPoll
  /\ cli = NoCli
  /\ ns = NoStruct

\* no MseRpc object, MNOC mailboxes quiet
NoMse == [context_id |-> 0]
NoMnoc == [receive_ready |-> FALSE, credits |-> FALSE, receive_error |-> FALSE,
           send_error |-> FALSE, meta |-> <<0, 0>>, inbox |-> <<>>, message |-> <<>>,
           size |-> 0]

\* the legacy tool: NvidiaDevice.__init__ leaves self.fsp_rpc = None
InitLegacyAnyDevice ==
  /\ impl = "FspRpc"
  /\ pc = "idle"
  /\ boot_done = TRUE
  /\ dev = "idle" /\ dev_cmd = <<>>
  /\ mse = NoMse /\ mnoc = NoMnoc
  /\ InitRegs /\ InitHost

\* props["nvlink"] of the devices with FSP
NvlinkH100 == [number |-> NVLINK_NUMBER_H100]
NvlinkLaguna == [number |-> NVLINK_NUMBER_LAGUNA]

InitLegacy == InitLegacyAnyDevice /\ nvlink = NvlinkH100

\* a channel object about to be constructed on a booted FSP
InitEmem ==
  /\ impl = "FspEmemRpc"
  /\ pc = "ctor"
  /\ boot_done = TRUE
  /\ knobs = KnobsOff
  /\ nvlink = NvlinkH100
  /\ dev = "idle" /\ dev_cmd = <<>>
  /\ mse = NoMse /\ mnoc = NoMnoc
  /\ InitRegs /\ InitHost

Init == (InitLegacy /\ knobs \in {KnobsOff, KnobsOn}) \/ InitEmem

Device ==
  \/ DevTake
  \/ DevAck
  \/ \E kind \in RspKinds : DevRespond(kind)

\* steps of the host thread both clients share
HostShared ==
  \/ reset_rpc_state
  \/ reset_rpc_state_settle
  \/ reset_rpc_state_write
  \/ write_emem
  \/ write_queue_tail
  \/ write_queue_head
  \/ poll_for_msg_queue
  \/ read_msg
  \/ host_return

HostEmem ==
  \/ \E data \in SendInputs : send_data(data)
  \/ \E knob_id \in QueryKnobs : send_cmd(knob_id)
  \/ receive_data
  \/ send_data_poll_queue
  \/ receive_data_finish
  \/ send_cmd_finish

HostLegacy ==
  \/ _init_fsp_rpc
  \/ wait_for_boot
  \/ prc_cmd_poll_queue
  \/ prc_cmd_check_queues
  \/ prc_cmd_finish
  \/ reset_device

NextEmem == Device \/ HostShared \/ HostEmem \/ Tick

\* knob queries through either client
Next ==
  \/ DevBoot \/ Device \/ HostShared \/ HostEmem \/ HostLegacy \/ Tick
  \/ \E knob_id \in QueryKnobs : query_knob(knob_id)

Spec == Init /\ [][Next]_vars

\* a run of the legacy tool that switches the CC mode
NextCc ==
  \/ DevBoot \/ Device \/ HostShared \/ HostLegacy \/ Tick
  \/ \E mode \in ModeArgs : set_cc_mode(mode)

InitCc == InitLegacy /\ knobs \in InitKnobStates

SpecCc == InitCc /\ [][NextCc]_vars

\* a device that stores written knob values and answers a read with the
\* stored value (it may still be slow, and leave garbage above bit 15)
DeviceStoring ==
  \/ DevTake
  \/ DevAck
  \/ \E kind \in {"ok", "hi"} : DevRespond(kind)

\* every knob store set_cc_mode can start from: each knob 0 or 1, the BAR0
\* decoupler 0 or 2
AllKnobStates ==
  {k \in [ModelKnobs -> {0, 1, 2}] :
     /\ k[PRC_KNOB_ID_BAR0_DECOUPLER] \in {0, 2}
     /\ \A id \in ModelKnobs \ {PRC_KNOB_ID_BAR0_DECOUPLER} : k[id] \in {0, 1}}

\* set_cc_mode on a device that stores knob writes, from every knob store,
\* without resets
NextCcStoring ==
  \/ DeviceStoring \/ HostShared \/ Tick
  \/ _init_fsp_rpc \/ wait_for_boot
  \/ prc_cmd_poll_queue \/ prc_cmd_check_queues \/ prc_cmd_finish
  \/ \E mode \in ModeArgs : set_cc_mode(mode)

InitCcStoring == InitLegacy /\ knobs \in AllKnobStates

SpecCcStoring == InitCcStoring /\ [][NextCcStoring]_vars

\* direct knob writes and reads through the legacy client, without resets
NextKnob ==
  \/ DeviceStoring \/ HostShared \/ Tick
  \/ _init_fsp_rpc \/ wait_for_boot
  \/ prc_cmd_poll_queue \/ prc_cmd_check_queues \/ prc_cmd_finish
  \/ \E knob_id \in RoundTripKnobs : \E value \in KnobValues : prc_knob_write(knob_id, value)
  \/ \E knob_id \in RoundTripKnobs : query_knob(knob_id)

InitKnob == InitLegacy /\ knobs = KnobsOff

SpecKnob == InitKnob /\ [][NextKnob]_vars

\* messages of every length through send_cmd
NextSplit ==
  \/ \E n \in PayloadLens(max_packet_size_bytes \div 4) : \E first \in {0, 4096} :
       send_cmd_split(n, first)
  \/ send_cmd_packet
  \/ send_cmd_sent

\* a constructed channel, both queues empty at their base, no call under way
InitSplit ==
  /\ impl = "FspEmemRpc"
  /\ pc = "idle"
  /\ boot_done = TRUE
  /\ knobs = KnobsOff
  /\ nvlink = NvlinkH100
  /\ dev = "idle" /\ dev_cmd = <<>>
  /\ mse = NoMse /\ mnoc = NoMnoc
  /\ queue_head = nvdm_emem_base /\ queue_tail = nvdm_emem_base
  /\ msg_queue_head = nvdm_emem_base /\ msg_queue_tail = nvdm_emem_base
  /\ emem = <<>> /\ irq = FALSE
  /\ InitHost

SpecSplit == InitSplit /\ [][NextSplit]_vars

\* polls of a register the device may change at will
NextPoll ==
  \/ \E name \in PollNames : \E value \in PollValues : \E mask \in PollMasks :
       poll_register(name, value, mask)
  \/ \E name \in PollNames : \E mask \in PollMasks : poll_register_any_bit(name, mask)
  \/ poll_loop_stamp
  \/ \E data \in RegValues : poll_read(data)
  \/ poll_done
  \/ PollTick

InitPoll == InitLegacy /\ knobs = KnobsOff

SpecPoll == InitPoll /\ [][NextPoll]_vars

\* FSP as the PPCIe query meets it: it answers, rejects or stays silent
DeviceCli ==
  \/ DevTake
  \/ DevAck
  \/ \E kind \in {"ok", "fail"} : DevRespond(kind)

\* the command line's PPCIe query over the EMEM channel
NextCli ==
  \/ DeviceCli \/ Tick
  \/ send_data_poll_queue
  \/ write_emem \/ write_queue_tail \/ write_queue_head
  \/ poll_for_msg_queue \/ read_msg
  \/ send_cmd_finish
  \/ cli_query_ppcie_settings
  \/ cli_query_ended
  \/ cli_query_prc_knobs
  \/ cli_exit

InitCli == InitSplit

\* the command line's NVLink blocking through the legacy client
NextLinks ==
  \/ DeviceCli \/ Tick
  \/ reset_rpc_state \/ reset_rpc_state_settle \/ reset_rpc_state_write
  \/ _init_fsp_rpc \/ wait_for_boot
  \/ prc_cmd_poll_queue \/ prc_cmd_check_queues
  \/ write_emem \/ write_queue_tail \/ write_queue_head
  \/ poll_for_msg_queue \/ read_msg
  \/ prc_cmd_finish
  \/ \E handler \in LinkHandlers : \E links \in LinksToBlock(nvlink.number) :
       cli_block_nvlink(handler, links)
  \/ cli_check_link
  \/ cli_block_returned
  \/ cli_links_exit

SpecLinks == InitKnob /\ [][NextLinks]_vars

SpecCli == InitCli /\ [][NextCli]_vars

\* NVLink blocking through the legacy client, on either kind of device
NextNvlink ==
  \/ Device \/ HostShared \/ Tick
  \/ _init_fsp_rpc \/ wait_for_boot
  \/ prc_cmd_poll_queue \/ prc_cmd_check_queues \/ prc_cmd_finish
  \/ \E nvlinks \in NvlinkLists(nvlink.number) : prc_block_nvlinks(nvlinks)

InitNvlink ==
  /\ InitLegacyAnyDevice
  /\ nvlink \in {NvlinkH100, NvlinkLaguna}
  /\ knobs = KnobsOff

SpecNvlink == InitNvlink /\ [][NextNvlink]_vars

\* the host thread keeps running and time keeps passing; nothing is assumed of
\* the device
FairEmem ==
  /\ InitEmem /\ [][NextEmem]_vars
  /\ WF_vars(HostShared \/ HostEmem)
  /\ WF_vars(Tick)

(* ----------------------- MseRpc over GpuMnoc --------------------------- *)

\* MseHeader._fields_: the bitfields of its first three 32-bit words; the
\* fourth word is the 32-bit field rsvd3
MseHeaderWord1 ==
  << <<"version", 8>>, <<"status", 6>>, <<"rsvd0", 2>>, <<"ssid", 8>>, <<"dsid", 8>> >>
MseHeaderWord2 ==
  << <<"ctxid", 16>>, <<"cmd_opcode", 12>>, <<"cmd_class", 4>> >>
MseHeaderWord3 ==
  << <<"credit", 11>>, <<"credit_priority", 2>>, <<"credit_reset", 1>>,
     <<"rsvd1", 2>>, <<"flags_type", 1>>, <<"flags_final", 1>>,
     <<"flags_reset", 1>>, <<"flags_rsvd", 3>>, <<"priority", 2>>,
     <<"endpoint_specific", 8>> >>

MseFieldNames ==
  {"version", "status", "rsvd0", "ssid", "dsid", "ctxid", "cmd_opcode", "cmd_class",
   "credit", "credit_priority", "credit_reset", "rsvd1", "flags_type", "flags_final",
   "flags_reset", "flags_rsvd", "priority", "endpoint_specific", "rsvd3"}

\* MseHeader(): all fields 0
MseHeader == [n \in MseFieldNames |-> 0]

\* MseHeader.to_int_list()
mse_to_int_list(obj) ==
  <<to_int(MseHeaderWord1, obj), to_int(MseHeaderWord2, obj),
    to_int(MseHeaderWord3, obj), Word(obj["rsvd3"])>>

\* mse_header.from_ints(resp_data[:4]); mse_header.is_response
is_response(resp_data) ==
  from_int_field(MseHeaderWord3, "flags_type", resp_data[3]) = 1

\* the header send_cmd builds
SendCmdHeader(context_id, cmd_class, cmd_opcode, reset) ==
  [MseHeader EXCEPT !["ctxid"] = context_id, !["cmd_class"] = cmd_class,
                    !["cmd_opcode"] = cmd_opcode, !["credit"] = 8,
                    !["flags_reset"] = IF reset THEN 1 ELSE 0,
                    !["ssid"] = 9, !["dsid"] = 4]

\* commands of MseRpc: _negotiate and portlist_status, as
\* <<cmd_class, cmd_opcode, cmd_data, reset>>
MseCmds ==
  {<<1, 0, <<Word(0), Word(0)>>, TRUE>>, <<2, 2, <<Word(Shl(1, 18) - 1)>>, FALSE>>}

\* messages MSE may put in the send mailbox: a response to the command, or a
\* request of its own (flags_type = 0)
MnocMessages ==
  {mse_to_int_list([MseHeader EXCEPT !["flags_type"] = 1]) \o <<Word(5)>>,
   mse_to_int_list([MseHeader EXCEPT !["flags_final"] = 1])}

\* MseRpc.send_cmd up to the call of mnoc.send_data
mse_send_cmd(cmd) ==
  /\ pc = "idle" /\ ops < MaxOps /\ impl = "MseRpc"
  /\ task' = [NoTask EXCEPT !.op = "mse_send_cmd",
                !.data = mse_to_int_list(SendCmdHeader(mse.context_id, cmd[1], cmd[2], cmd[4]))
                         \o cmd[3]]
  /\ mse' = [mse EXCEPT !.context_id = mse.context_id + 1]
  /\ pc' = "mnoc_check"
  /\ result' = NoResult
  /\ expired' = FALSE
  /\ ops' = ops + 1
  /\ UNCHANGED <<impl, extvars, mnoc, qregs, emem, irq, devvars, fsp_rpc, client_born, resets,
                 mdata, knob_log, seen>>

\* the word a read of offset_info_receive_mbox returns: ready in bit 24, error
\* in bit 25, credits in bit 26
info_receive_mbox ==
  <<0, (IF mnoc.receive_ready THEN 256 ELSE 0) + (IF mnoc.receive_error THEN 512 ELSE 0)
       + (IF mnoc.credits THEN 1024 ELSE 0)>>

\* the word a read of offset_info_send_mbox returns: message ready in bit 24,
\* error in bit 25, the message size in the low 20 bits
info_send_mbox ==
  <<mnoc.size % HalfWord,
    (IF mnoc.message # <<>> THEN 256 ELSE 0) + (IF mnoc.send_error THEN 512 ELSE 0)
    + mnoc.size \div HalfWord>>

\* check_receive_mbox_errors / check_send_mbox_errors: info_mbox & (1<<25) != 0
\* raises GpuError
MboxErrorNever(info_mbox) == FALSE
MboxError(info_mbox) == WordAnd(info_mbox, Shl(1, 25)) # 0

\* msg_metadata = size; msg_metadata |= 0x1 << 20
MsgMetadata(data) == Word(BitOr(Len(data) * 4, Shl(1, 20)))

\* GpuMnoc.send_data: check_receive_mbox_errors before the send
mnoc_send_check ==
  /\ pc = "mnoc_check"
  /\ IF MboxError(info_receive_mbox)
     THEN /\ pc' = "done"
          /\ result' = Err("GpuError", "receive_error", Word(0), <<>>, 0)
     ELSE /\ pc' = "mnoc_ready"
          /\ UNCHANGED result
  /\ expired' = FALSE
  /\ UNCHANGED <<impl, extvars, mse, mnoc, ops, qregs, emem, irq, devvars, fsp_rpc, client_born,
                 resets, task, mdata, knob_log, seen>>

\* GpuMnoc.send_data: poll_for_receive_ready, then the metadata write
mnoc_poll_receive_ready ==
  /\ pc = "mnoc_ready"
  /\ mnoc.receive_ready \/ expired
  /\ IF mnoc.receive_ready
     THEN /\ pc' = IF task.data = <<>> THEN "mnoc_check_after" ELSE "mnoc_credits"
          /\ mnoc' = [mnoc EXCEPT !.meta = MsgMetadata(task.data), !.inbox = <<>>]
          /\ UNCHANGED result
     ELSE /\ pc' = "done"
          /\ result' = Err("GpuPollTimeout", "receive_ready_timeout", Word(0), <<>>, 0)
          /\ UNCHANGED mnoc
  /\ expired' = FALSE
  /\ UNCHANGED <<impl, extvars, mse, ops, qregs, emem, irq, devvars, fsp_rpc, client_born,
                 resets, task, mdata, knob_log, seen>>

\* the words of data written after one credit poll: from word sent on, up
\* to the next word whose sent_bytes % 64 == 0
CreditBlockWhole(data, sent) == SubSeq(data, sent + 1, Len(data))
CreditBlock(data, sent) == SubSeq(data, sent + 1, Min(Len(data), sent + 64 \div 4))

\* GpuMnoc.send_data: poll_for_receive_credits at sent_bytes % 64 == 0 and
\* the data writes that follow it, up to the next poll or the last word
mnoc_send_words ==
  /\ pc = "mnoc_credits"
  /\ mnoc.credits \/ expired
  /\ IF mnoc.credits
     THEN /\ mnoc' = [mnoc EXCEPT !.inbox = @ \o CreditBlock(task.data, Len(@))]
          /\ pc' = IF Len(mnoc'.inbox) < Len(task.data)
                   THEN "mnoc_credits" ELSE "mnoc_check_after"
          /\ UNCHANGED result
     ELSE /\ pc' = "done"
          /\ result' = Err("GpuPollTimeout", "credits_timeout", Word(0), <<>>, 0)
          /\ UNCHANGED mnoc
  /\ expired' = FALSE
  /\ UNCHANGED <<impl, extvars, mse, ops, qregs, emem, irq, devvars, fsp_rpc, client_born,
                 resets, task, mdata, knob_log, seen>>

\* GpuMnoc.send_data: check_receive_mbox_errors after the last data word
mnoc_send_check_after ==
  /\ pc = "mnoc_check_after"
  /\ IF MboxError(info_receive_mbox)
     THEN /\ pc' = "done"
          /\ result' = Err("GpuError", "receive_error", Word(0), <<>>, 0)
     ELSE IF task.op = "mnoc_send_data"
     THEN /\ pc' = "done"
          /\ result' = Ok(0, 0)
     ELSE /\ pc' = "mnoc_recv"
          /\ UNCHANGED result
  /\ expired' = FALSE
  /\ UNCHANGED <<impl, extvars, mse, mnoc, ops, qregs, emem, irq, devvars, fsp_rpc, client_born,
                 resets, task, mdata, knob_log, seen>>

\* the error the device's poll_register raises when its deadline passes (the
\* packaged device class is not part of this tree)
PollRegisterTimeout == "GpuPollTimeout"

\* GpuMnoc.receive_data when poll_for_message_ready timed out:
\* check_send_mbox_errors raises GpuError, and if it does not,
\* raise GpuRpcTimeout() from err
ReceiveTimeoutErrorNoCheck(poll_error, info_mbox) ==
  IF poll_error # "GpuPollTimeout"
  THEN Err(poll_error, "msg_poll", Word(0), <<>>, 0)
  ELSE Err("GpuRpcTimeout", "msg_timeout", Word(0), <<>>, 0)
ReceiveTimeoutError(poll_error, info_mbox) ==
  IF poll_error # "GpuPollTimeout"
  THEN Err(poll_error, "msg_poll", Word(0), <<>>, 0)
  ELSE IF MboxError(info_mbox)
  THEN Err("GpuError", "send_error", Word(0), <<>>, 0)
  ELSE Err("GpuRpcTimeout", "msg_timeout", Word(0), <<>>, 0)

\* GpuMnoc.receive_data after the poll: msg_size = info & 0xfffff, then one
\* read of the data register for every 4 bytes while received < msg_size
MnocReceiveOneShort(info_mbox, fifo) ==
  [i \in 1..(WordAnd(info_mbox, Shl(1, 20) - 1) \div 4) |->
     IF i <= Len(fifo) THEN fifo[i] ELSE Word(0)]
MnocReceive(info_mbox, fifo) ==
  [i \in 1..((WordAnd(info_mbox, Shl(1, 20) - 1) + 3) \div 4) |->
     IF i <= Len(fifo) THEN fifo[i] ELSE Word(0)]

\* what process_incoming does with one received message
ProcessIncoming(resp_data) == IF is_response(resp_data) THEN "return" ELSE "drop"

\* one pass of the loop of process_incoming: mnoc.receive_data() (timeout 1),
\* then return the payload of a response, or drop the message and loop
process_incoming ==
  /\ pc = "mnoc_recv"
  /\ mnoc.message # <<>> \/ expired
  /\ IF mnoc.message # <<>>
     THEN /\ mdata' = MnocReceive(info_send_mbox, mnoc.message)
          /\ mnoc' = [mnoc EXCEPT !.message = <<>>, !.size = 0]
          /\ IF MboxError(info_send_mbox)
             THEN /\ pc' = "done"
                  /\ result' = Err("GpuError", "send_error", Word(0), <<>>, 0)
             ELSE IF ProcessIncoming(mdata') = "return"
             THEN /\ pc' = "done"
                  /\ result' = [Ok(0, 0) EXCEPT !.data = SubSeq(mdata', 5, Len(mdata'))]
             ELSE /\ pc' = "mnoc_recv"
                  /\ UNCHANGED result
     ELSE /\ pc' = "done"
          /\ result' = ReceiveTimeoutError(PollRegisterTimeout, info_send_mbox)
          /\ UNCHANGED <<mnoc, mdata>>
  /\ expired' = FALSE
  /\ UNCHANGED <<impl, extvars, mse, ops, qregs, emem, irq, devvars, fsp_rpc, client_born,
                 resets, task, knob_log, seen>>

\* MSE sets a flag of its mailboxes
MnocFlags == {"receive_ready", "credits", "receive_error", "send_error"}

MnocDevFlag(flag) ==
  /\ ~mnoc[flag]
  /\ mnoc' = [mnoc EXCEPT ![flag] = TRUE]
  /\ UNCHANGED <<impl, extvars, mse, ops, qregs, emem, irq, devvars, resets, hostvars>>

\* MSE puts a message in the send mailbox and advertises its size in bytes;
\* the last word may be used in part
MnocDevPost(msg, short) ==
  /\ mnoc.message = <<>>
  /\ mnoc' = [mnoc EXCEPT !.message = msg, !.size = Len(msg) * 4 - short]
  /\ UNCHANGED <<impl, extvars, mse, ops, qregs, emem, irq, devvars, resets, hostvars>>

\* MseRpc.__init__ sets context_id = 0x1
InitMse ==
  /\ impl = "MseRpc"
  /\ pc = "idle"
  /\ mse = [context_id |-> 1]
  /\ mnoc \in {[NoMnoc EXCEPT !.receive_ready = r, !.credits = r] : r \in BOOLEAN}
  /\ nvlink = NvlinkLaguna
  /\ boot_done = TRUE
  /\ knobs = KnobsOff
  /\ dev = "idle" /\ dev_cmd = <<>>
  /\ queue_head = 0 /\ queue_tail = 0 /\ msg_queue_head = 0 /\ msg_queue_tail = 0
  /\ emem = <<>> /\ irq = FALSE
  /\ InitHost

HostMse ==
  \/ \E cmd \in MseCmds : mse_send_cmd(cmd)
  \/ mnoc_send_check
  \/ mnoc_poll_receive_ready
  \/ mnoc_send_words
  \/ mnoc_send_check_after
  \/ process_incoming
  \/ host_return

DeviceMse ==
  \/ \E flag \in MnocFlags : MnocDevFlag(flag)
  \/ \E msg \in MnocMessages : \E short \in {0, 3} : MnocDevPost(msg, short)

NextMse == HostMse \/ DeviceMse \/ Tick

\* the host thread keeps running and time keeps passing; nothing is assumed of
\* MSE
FairMse ==
  /\ InitMse /\ [][NextMse]_vars
  /\ WF_vars(HostMse)
  /\ WF_vars(Tick)

(* ------------------ FspEmemRpc.send_data by itself -------------------- *)

\* the lengths of the word lists given to send_data: none, one word, a full
\* packet of max_packet_size_bytes, and one word more
RegionLens == {0, 1, max_packet_size_bytes \div 4, max_packet_size_bytes \div 4 + 1}

\* the EMEM byte offsets write_emem(data, phys_base=nvdm_emem_base) writes
EmemOffsets(data) == {nvdm_emem_base + 4 * (i - 1) : i \in 1..Len(data)}

NextRegion ==
  \/ \E n \in RegionLens : send_data([i \in 1..n |-> Word(i)])
  \/ send_data_poll_queue
  \/ write_emem
  \/ write_queue_tail
  \/ write_queue_head
  \/ host_return
  \/ Device
  \/ Tick

SpecRegion == InitSplit /\ [][NextRegion]_vars

(* ------------------- GpuMnoc.send_data by itself ---------------------- *)

\* the lengths of the word lists given to send_data: none, one word, exactly
\* 64 bytes, one word more, and more than 128 bytes
MnocSendLens == {0, 1, 16, 17, 33}

\* a caller's mnoc.send_data(data)
mnoc_send_data(data) ==
  /\ pc = "idle" /\ ops < MaxOps /\ impl = "MseRpc"
  /\ task' = [NoTask EXCEPT !.op = "mnoc_send_data", !.data = data]
  /\ pc' = "mnoc_check"
  /\ result' = NoResult
  /\ expired' = FALSE
  /\ ops' = ops + 1
  /\ UNCHANGED <<impl, extvars, mse, mnoc, qregs, emem, irq, devvars, fsp_rpc, client_born,
                 resets, mdata, knob_log, seen>>

\* MSE has no receive credits left
MnocDevNoCredits ==
  /\ mnoc.credits
  /\ mnoc' = [mnoc EXCEPT !.credits = FALSE]
  /\ UNCHANGED <<impl, extvars, mse, ops, qregs, emem, irq, devvars, resets, hostvars>>

NextCredits ==
  \/ \E n \in MnocSendLens : mnoc_send_data([i \in 1..n |-> Word(i)])
  \/ mnoc_send_check
  \/ mnoc_poll_receive_ready
  \/ mnoc_send_words
  \/ mnoc_send_check_after
  \/ host_return
  \/ \E flag \in MnocFlags \ {"send_error"} : MnocDevFlag(flag)
  \/ MnocDevNoCredits
  \/ Tick

SpecCredits == InitMse /\ [][NextCredits]_vars

(* ----------------------- NiceStruct objects --------------------------- *)

\* how many attributes of one object the caller assigns
MaxSets == 2

StructClasses == {"DemoStruct", "MctpHeader", "MctpMessageHeader"}

\* cls._fields_
Fields(cls) ==
  CASE cls = "DemoStruct" -> DemoStructFields
    [] cls = "MctpHeader" -> MctpHeaderFields
    [] cls = "MctpMessageHeader" -> MctpMessageHeaderFields

\* NiceStruct.__init__ (all bytes 0) and then the subclass's own __init__
NewStruct(cls) ==
  LET fmt_ints == Cardinality({i \in DOMAIN Fields(cls) : ~IsBitfield(Fields(cls)[i])})
                  + (IF \E i \in DOMAIN Fields(cls) : IsBitfield(Fields(cls)[i]) THEN 1 ELSE 0)
      zero == from_bytes(Fields(cls), [i \in 1..(4 * fmt_ints) |-> 0])
  IN CASE cls = "DemoStruct" -> zero
       [] cls = "MctpHeader" -> [zero EXCEPT !["som"] = 1, !["eom"] = 1]
       [] cls = "MctpMessageHeader" ->
            [zero EXCEPT !["type"] = MCTP_TYPE_VENDOR, !["vendor_id"] = VENDOR_ID_NVIDIA]

\* the 32-bit ints the callers convert: 0, 0x01020304, 0x05060708 (the
\* test's), 0xc0000000 and 0xffffffff
StructInts == {Word(0), <<772, 258>>, <<1800, 1286>>, <<0, 49152>>, <<65535, 65535>>}

\* the iterables from_ints is given
IterableKinds == {"list", "tuple", "generator"}

\* the in-range values assigned to a field
FieldValues(field) ==
  IF IsBitfield(field) THEN {0, 1, (2 ^ field[2]) - 1} ELSE StructInts

\* instance = cls()
ns_new(cls) ==
  /\ ns.st = "none"
  /\ ns' = [ns EXCEPT !.st = "built", !.cls = cls, !.obj = NewStruct(cls)]
  /\ UNCHANGED <<impl, prev, nvlink, frag, poll, cli, mse, mnoc, ops, qregs, emem, irq,
                 devvars, resets, hostvars>>

\* instance.name = value
ns_setattr(i) ==
  /\ ns.st = "built" /\ ns.sets < MaxSets
  /\ i \in DOMAIN Fields(ns.cls)
  /\ \E value \in FieldValues(Fields(ns.cls)[i]) :
       ns' = [ns EXCEPT !.obj[Fields(ns.cls)[i][1]] = value, !.sets = @ + 1]
  /\ UNCHANGED <<impl, prev, nvlink, frag, poll, cli, mse, mnoc, ops, qregs, emem, irq,
                 devvars, resets, hostvars>>

\* instance.from_ints(ints), ints a list, a tuple or a generator
ns_from_ints(ints, kind) ==
  /\ ns.st = "built"
  /\ Len(bytearray_view_from_ints(ints)) = Len(to_bytes(Fields(ns.cls), ns.obj))
  /\ ns' = [ns EXCEPT !.st = "loaded", !.ints = ints, !.iterable = kind,
                      !.obj = from_bytes(Fields(ns.cls), bytearray_view_from_ints(ints))]
  /\ UNCHANGED <<impl, prev, nvlink, frag, poll, cli, mse, mnoc, ops, qregs, emem, irq,
                 devvars, resets, hostvars>>

\* instance.to_int_list()
ns_to_int_list ==
  /\ ns.st = "loaded"
  /\ ns' = [ns EXCEPT !.st = "listed", !.out = to_int_list(Fields(ns.cls), ns.obj)]
  /\ UNCHANGED <<impl, prev, nvlink, frag, poll, cli, mse, mnoc, ops, qregs, emem, irq,
                 devvars, resets, hostvars>>

\* instance.to_bytes()
ns_to_bytes ==
  /\ ns.st \in {"built", "listed"}
  /\ ns' = [ns EXCEPT !.st = "packed", !.bytes = to_bytes(Fields(ns.cls), ns.obj)]
  /\ UNCHANGED <<impl, prev, nvlink, frag, poll, cli, mse, mnoc, ops, qregs, emem, irq,
                 devvars, resets, hostvars>>

\* instance.from_bytes(bytedata) with the bytes to_bytes() returned
ns_from_bytes ==
  /\ ns.st = "packed"
  /\ ns' = [ns EXCEPT !.st = "unpacked", !.obj = from_bytes(Fields(ns.cls), ns.bytes)]
  /\ UNCHANGED <<impl, prev, nvlink, frag, poll, cli, mse, mnoc, ops, qregs, emem, irq,
                 devvars, resets, hostvars>>

NextStruct ==
  \/ \E cls \in StructClasses : ns_new(cls)
  \/ \E i \in 1..Len(MctpHeaderFields) : ns_setattr(i)
  \/ \E a, b \in StructInts : \E kind \in IterableKinds :
       ns_from_ints(<<a>>, kind) \/ ns_from_ints(<<a, b>>, kind)
  \/ ns_to_int_list
  \/ ns_to_bytes
  \/ ns_from_bytes

InitStruct == InitSplit

SpecStruct == InitStruct /\ [][NextStruct]_vars

\* receiving on either channel: the EMEM queues or the MNOC mailboxes
NextReceive ==
  \/ impl = "FspEmemRpc" /\ NextEmem
  \/ impl = "MseRpc" /\ NextMse

SpecReceive == (InitEmem \/ InitMse) /\ [][NextReceive]_vars

(* --------------------------- properties ------------------------------- *)

\* the host is inside the part of a send that writes EMEM and the command
\* queue registers
Sending == pc \in {"emem", "tail", "head"}

\* C1: send_data and prc_cmd write EMEM and the command-queue head/tail only
\* after reading the command queue with head == tail; when the queue stays
\* non-empty until the deadline the call raises and has written neither
C1_SendOnlyAfterQueueReadEmpty ==
  /\ Sending => seen.q = "empty"
  /\ seen.wrote => seen.q = "empty"
  /\ result.site = "cmd_queue_timeout" =>
       /\ pc = "done"
       /\ result.kind \in {"GpuError", "GpuRpcTimeout"}
       /\ seen.q = "nonempty"
       /\ ~seen.wrote

\* a send_data that timed out waiting for the command queue
C1_Witness ==
  /\ impl = "FspEmemRpc" /\ task.op = "send_data" /\ pc = "done"
  /\ result.site = "cmd_queue_timeout"

\* C2 as stated: whenever a request is published the message queue is empty
C2_PublishedWithMsgQueueEmpty == seen.pub # "nonempty"

\* C2, amended: the legacy prc_cmd writes a request only after its check read
\* both queues empty and raises when the message queue is not empty;
\* FspEmemRpc.send_data makes no such check and does publish over a response
\* that was not received
C2_LegacyChecksMsgQueue ==
  /\ (impl = "FspRpc" /\ (Sending \/ seen.wrote)) => seen.q = "empty" /\ seen.mq = "empty"
  /\ result.site = "msg_not_empty" => impl = "FspRpc" /\ ~seen.wrote /\ seen.mq = "nonempty"
  /\ (impl = "FspEmemRpc" /\ seen.wrote) => seen.mq = "none"

\* prc_cmd refused to send because a response was still in the message queue
C2_Witness ==
  /\ impl = "FspRpc" /\ ops = 2 /\ pc = "done" /\ result.site = "msg_not_empty"

\* knob commands of the current set_cc_mode, as published: <<phase, knob, value>>
Enabling == task.op = "set_cc_mode" /\ task.mode \in {"on", "devtools"}
Disabling == task.op = "set_cc_mode" /\ task.mode = "off"
WritesOf(knob_id) ==
  {i \in 1..Len(knob_log) : knob_log[i][1] = "write" /\ knob_log[i][2] = knob_id}
CommandsOf(knob_id) == {i \in 1..Len(knob_log) : knob_log[i][2] = knob_id}

\* C3 as stated: CCM is written before CCD when enabling, CCD before CCM when
\* disabling
C3_CcmFirstOnEnable ==
  /\ Enabling =>
       \A i \in WritesOf(PRC_KNOB_ID_CCD) : \A j \in WritesOf(PRC_KNOB_ID_CCM) : j < i
  /\ Disabling =>
       \A i \in WritesOf(PRC_KNOB_ID_CCD) : \A j \in WritesOf(PRC_KNOB_ID_CCM) : i < j

\* C3, amended: in every mode set_cc_mode check-and-writes CCD before CCM; no
\* command for CCD follows a command for CCM
C3_CcdBeforeCcm ==
  task.op = "set_cc_mode" =>
    \A i \in CommandsOf(PRC_KNOB_ID_CCD) : \A j \in CommandsOf(PRC_KNOB_ID_CCM) : i < j

\* enabling with both knobs written: CCD first, CCM second
C3_Witness ==
  /\ Enabling /\ pc = "done" /\ result.kind = "ok"
  /\ WritesOf(PRC_KNOB_ID_CCD) # {} /\ WritesOf(PRC_KNOB_ID_CCM) # {}

\* the step of set_cc_mode a knob belongs to
KnobRank(knob_id) ==
  CASE knob_id \in {PRC_KNOB_ID_2, PRC_KNOB_ID_4, PRC_KNOB_ID_34} -> 1
    [] knob_id = PRC_KNOB_ID_BAR0_DECOUPLER -> 2
    [] OTHER -> 3

\* C4: when enabling, the prerequisite knobs 2, 4 and 34 are check-and-written
\* to 0 before the BAR0 decoupler, the BAR0 decoupler before CCM and CCD; a
\* knob operation that raises ends set_cc_mode, so no CCM or CCD write follows
C4_PrerequisitesFirst ==
  Enabling =>
    /\ \A i, j \in 1..Len(knob_log) :
         i < j => KnobRank(knob_log[i][2]) <= KnobRank(knob_log[j][2])
    /\ \A i \in 1..Len(knob_log) :
         (knob_log[i][1] = "write" /\ KnobRank(knob_log[i][2]) = 1) => knob_log[i][3] = 0
    /\ \A i \in 1..Len(knob_log) :
         KnobRank(knob_log[i][2]) = 2 =>
           \A k \in {PRC_KNOB_ID_2, PRC_KNOB_ID_4, PRC_KNOB_ID_34} :
             \E j \in 1..(i - 1) : knob_log[j] = <<"read", k, 0>>
    /\ \A i \in 1..Len(knob_log) :
         KnobRank(knob_log[i][2]) = 3 =>
           \E j \in 1..(i - 1) : knob_log[j][1] = "read" /\ KnobRank(knob_log[j][2]) = 2
    /\ (pc = "done" /\ result.kind # "ok" /\ result.at \in 1..4) =>
         CommandsOf(PRC_KNOB_ID_CCD) \cup CommandsOf(PRC_KNOB_ID_CCM) = {}

\* enabling stopped by a raise at the BAR0 decoupler, after the prerequisites
C4_Witness ==
  /\ Enabling /\ pc = "done" /\ result.kind = "GpuError" /\ result.at = 4
  /\ WritesOf(PRC_KNOB_ID_2) # {} /\ CommandsOf(PRC_KNOB_ID_BAR0_DECOUPLER) # {}

\* C5 as stated: a command is sent only by a client constructed after the
\* last hardware reset
C5_ClientRebuiltAfterReset ==
  (impl = "FspRpc" /\ (Sending \/ seen.wrote)) => client_born = resets

\* C5, amended: a hardware reset leaves self.fsp_rpc as it is and
\* _init_fsp_rpc returns at once when it is set, so the client built before
\* the reset is used again and reset_rpc_state is not run again; what precedes
\* every command is prc_cmd's own wait_for_boot
C5_ClientKeptAcrossReset ==
  /\ [][fsp_rpc # 0 => (fsp_rpc' = fsp_rpc /\ client_born' = client_born)]_vars
  /\ [][(fsp_rpc # 0 /\ pc = "init" /\ pc' # pc) => pc' = "boot"]_vars
  /\ []((impl = "FspRpc" /\ (Sending \/ seen.wrote)) => (fsp_rpc # 0 /\ seen.booted))

\* a command published after a reset by the client built before it
C5_Witness ==
  /\ impl = "FspRpc" /\ resets > 0 /\ client_born < resets /\ fsp_rpc # 0
  /\ pc = "poll_msg" /\ seen.wrote

\* the outcome of receive_data when no message came
ReceiveTimedOut ==
  task.op = "receive_data" /\ pc = "done" /\ result.site = "msg_timeout"

\* C6: receive_data on a channel whose message queue stays empty ends by
\* raising GpuRpcTimeout once the timeout has elapsed; it returns no data and
\* writes no queue register or EMEM word
C6_ReceiveTimesOut ==
  /\ [](ReceiveTimedOut =>
          /\ result.kind = "GpuRpcTimeout"
          /\ result.data = <<>>
          /\ ~seen.rwrote /\ ~seen.wrote)
  /\ [][(task.op = "receive_data" /\ pc = "poll_msg" /\ pc' = "done")
          => UNCHANGED <<qregs, emem, mdata>>]_vars
  /\ ([]is_msg_queue_empty) =>
       ((task.op = "receive_data" /\ pc = "poll_msg") ~> ReceiveTimedOut)

\* a receive_data that raised GpuRpcTimeout on an empty message queue
C6_Witness ==
  ReceiveTimedOut /\ result.kind = "GpuRpcTimeout" /\ is_msg_queue_empty

\* C7 as stated: every call of MseRpc.send_cmd / process_incoming eventually
\* returns or raises, whatever the device does
C7_SendCmdTerminates ==
  (task.op = "mse_send_cmd" /\ pc # "done") ~> (pc = "done")

\* a response whose completion-code word is nonzero was rejected
CompletionRaised == pc = "done" /\ result.site = "completion"

WellFormed(md) ==
  /\ Len(md) >= 5
  /\ md[2][2] \div 256 = 21
  /\ md[4] = <<19, 0>>
  /\ md[5] = <<0, 0>>

LegacyRead == impl = "FspRpc" /\ task.op = "prc_knob_read"

\* C9: prc_cmd hands back a payload only for a response of at least 5 words
\* with nvdm_type 0x15, echoed request type 0x13 and completion code 0; a
\* short response, a wrong marker or a wrong echoed type raises GpuError, and
\* the request is published once only
C9_FramerValidates ==
  /\ (LegacyRead /\ pc = "done" /\ result.kind = "ok") => WellFormed(mdata)
  /\ (LegacyRead /\ pc = "done" /\ seen.rwrote /\ ~WellFormed(mdata)) =>
       /\ result.kind = "GpuError"
       /\ result.site \in {"short", "nvdm_type", "req_type", "completion"}
       /\ result.site = "short" <=> Len(mdata) < 5
       /\ result.value = 0
  /\ LegacyRead => Len(knob_log) <= 1

\* a response with a wrong echoed request type was rejected
C9_Witness ==
  /\ LegacyRead /\ pc = "done" /\ result.site = "req_type"
  /\ Len(mdata) >= 5 /\ mdata[4] # <<19, 0>> /\ Len(knob_log) = 1

\* C10: prc_knob_read sends the one payload word 0xc | 0x2<<8 | knob_id<<16,
\* raises unless the response payload is exactly one word, and returns the
\* low 16 bits of that word whatever its high 16 bits are
C10_KnobRead ==
  /\ [](LegacyRead => task.data = << <<12 + 2 * 256, task.knob>> >>)
  /\ [][(LegacyRead /\ pc = "emem" /\ pc' = "tail") =>
          SubSeq(emem', 1, 3) = << <<0, 49152>>, <<56958, 4880>>,
                                   <<12 + 2 * 256, task.knob>> >>]_vars
  /\ [][(LegacyRead /\ pc = "tail" /\ pc' = "head") =>
          queue_tail' = 2048 + 2 * 4]_vars
  /\ []((LegacyRead /\ pc = "done" /\ result.kind = "ok") =>
          /\ Len(mdata) = 6
          /\ result.value = mdata[6][1])
  /\ []((LegacyRead /\ pc = "done" /\ seen.rwrote /\ WellFormed(mdata)
           /\ Len(mdata) # 6) =>
          result.kind = "GpuError" /\ result.site = "response_size")

\* a knob value returned from a word with garbage in its high half
C10_Witness ==
  /\ LegacyRead /\ pc = "done" /\ result.kind = "ok"
  /\ mdata[6][2] # 0 /\ result.value = mdata[6][1]

\* C11: a prc_knob_read(id) that returns, made right after a prc_knob_write(id, v)
\* that returned, returns v, for every knob id and 16-bit v
C11_WriteReadRoundTrip ==
  (LegacyRead /\ pc = "done" /\ result.kind = "ok"
     /\ prev.kind = "ok" /\ prev.knob = task.knob) =>
    result.value = prev.value

\* 0xffff written and read back
C11_Witness ==
  /\ LegacyRead /\ pc = "done" /\ result.kind = "ok"
  /\ prev.kind = "ok" /\ prev.knob = task.knob /\ prev.value = 65535
  /\ result.value = 65535

\* a knob read of set_cc_mode's prc_knob_check_and_write got a well-formed
\* response with one payload word
CheckReadAnswered ==
  /\ task.op = "set_cc_mode" /\ task.phase = "read" /\ pc = "reset_tail"
  /\ WellFormed(mdata) /\ Len(mdata) = 6 /\ seen.msize = 24

\* C12: prc_knob_check_and_write publishes one knob read, and then one knob
\* write of the same knob and value if and only if the low 16 bits read differ
\* from the requested value; with equal values the next command is not a write
C12_CheckAndWrite ==
  /\ [][(CheckReadAnswered /\ pc' # pc) =>
          /\ (mdata[6][1] # task.value) <=>
                (/\ pc' = "boot" /\ task'.phase = "write" /\ task'.idx = task.idx
                 /\ task'.data = << <<13 + 2 * 256, task.knob>>, <<task.value, 0>> >>)
          /\ (mdata[6][1] = task.value) => task'.phase # "write"]_vars
  /\ [](task.op = "set_cc_mode" =>
          /\ \A i \in 1..Len(knob_log) :
                knob_log[i][1] = "write" =>
                  i > 1 /\ knob_log[i - 1] = <<"read", knob_log[i][2], knob_log[i][3]>>
          /\ \A i, j \in 1..Len(knob_log) :
                (i < j /\ knob_log[i][1] = knob_log[j][1]) => knob_log[i][2] # knob_log[j][2])

\* one check-and-write that wrote and one that did not
C12_Witness ==
  /\ task.op = "set_cc_mode" /\ pc = "done" /\ result.kind = "ok"
  /\ \E i \in 1..(Len(knob_log) - 1) :
       knob_log[i][1] = "read" /\ knob_log[i + 1][1] = "write"
  /\ \E i \in 1..(Len(knob_log) - 1) :
       knob_log[i][1] = "read" /\ knob_log[i + 1][1] = "read"

\* bit b of the 16-bit quantity h
Bit(h, b) == (h \div (2 ^ b)) % 2 = 1

BlockingNvlinks == task.op = "prc_block_nvlinks"

\* the command words of the current prc_block_nvlinks carry the mask: bits
\* 0-15 in bits 16-31 of the opcode word, bits 16-47 in the second word, bits
\* 48-63 in the low half of the third
MaskPacked(data) ==
  /\ data[1][1] = 10 + 256
  /\ \A l \in 0..63 :
       (l \in task.value) <=>
         CASE l < 16 -> Bit(data[1][2], l)
           [] l < 32 -> Bit(data[2][1], l - 16)
           [] l < 48 -> Bit(data[2][2], l - 32)
           [] OTHER -> Bit(data[3][1], l - 48)
  /\ data[3][2] = 0

\* C13 as stated: once the command is published, a device with at most 48
\* links has been sent the two headers and two command words only
C13_ThirdWordOnlyAbove48 ==
  (BlockingNvlinks /\ pc = "head" /\ nvlink.number <= 48) =>
    /\ Len(emem) = 4
    /\ queue_tail = 2048 + 3 * 4

\* C13, amended: the mask is packed in three words and all three are sent to
\* every device, with no assertion on the third; it is zero when all links
\* are below 48
C13_ThreeWordsAlways ==
  /\ [](BlockingNvlinks =>
          /\ Len(task.data) = 3 /\ MaskPacked(task.data)
          /\ (\A l \in task.value : l < 48) => task.data[3] = <<0, 0>>)
  /\ [][(BlockingNvlinks /\ pc = "emem" /\ pc' = "tail") =>
          SubSeq(emem', 3, 5) = task.data]_vars
  /\ [][(BlockingNvlinks /\ pc = "tail" /\ pc' = "head") =>
          queue_tail' = 2048 + 4 * 4]_vars

\* links 15 and 16 blocked on an 18-link device: three words published
C13_Witness ==
  /\ BlockingNvlinks /\ nvlink.number = 18 /\ task.value = {15, 16}
  /\ pc = "head" /\ queue_tail = 2048 + 4 * 4
  /\ SubSeq(emem, 3, 5) = << <<10 + 256, 32768>>, <<1, 0>>, <<0, 0>> >>

\* the som, eom and seq fields of a packet, read from its first word: bits
\* 31, 30 and 28-29
SomOf(packet) == packet[1][2] \div 32768
EomOf(packet) == (packet[1][2] \div 16384) % 2
SeqOf(packet) == (packet[1][2] \div 4096) % 4

RECURSIVE FramedSize(_)
FramedSize(packets) ==
  IF packets = <<>> THEN 0 ELSE Len(Head(packets)) + FramedSize(Tail(packets))

\* a message of more than one packet has been sent whole
SplitSent == frag.st = "idle" /\ Len(frag.data) + 2 > 256

C15_ErrorCheckedBeforeAndAfter ==
  /\ [][(mnoc'.meta # mnoc.meta \/ mnoc'.inbox # mnoc.inbox) =>
          pc \in {"mnoc_ready", "mnoc_credits"}]_vars
  /\ [][(pc' = "mnoc_ready" /\ pc # "mnoc_ready") =>
          (pc = "mnoc_check" /\ ~mnoc.receive_error)]_vars
  /\ [][(pc = "mnoc_check" /\ pc' # pc) =>
          /\ mnoc' = mnoc
          /\ mnoc.receive_error =>
               (pc' = "done" /\ result'.kind = "GpuError" /\ result'.site = "receive_error")]_vars
  /\ [][(pc = "mnoc_credits" /\ pc' # pc /\ pc' # "done") =>
          (pc' = "mnoc_check_after" /\ mnoc'.inbox = task.data
           /\ mnoc'.meta = <<Len(task.data) * 4, 16>>)]_vars
  /\ [][(pc = "mnoc_check_after" /\ pc' # pc) =>
          IF mnoc.receive_error
          THEN pc' = "done" /\ result'.kind = "GpuError" /\ result'.site = "receive_error"
          ELSE pc' = "mnoc_recv" /\ result' = result]_vars

\* the first check of the first send found the error bit set: GpuError, and
\* neither the metadata word nor a data word written
C15_Witness ==
  /\ task.op = "mse_send_cmd" /\ pc = "done"
  /\ result.kind = "GpuError" /\ result.site = "receive_error"
  /\ mnoc.meta = <<0, 0>> /\ mnoc.inbox = <<>>

BadfRead == poll.data[2] = 47839
BadfExpected == poll.value[2] = 47839

\* the value read last satisfies the predicate of the poll
Satisfied ==
  IF poll.op = "poll_register"
  THEN <<BitAnd(poll.data[1], poll.mask[1]), BitAnd(poll.data[2], poll.mask[2])>> = poll.value
  ELSE <<BitAnd(poll.data[1], poll.mask[1]), BitAnd(poll.data[2], poll.mask[2])>> # <<0, 0>>

\* C17: poll_register returns on a value with 0xbadf in its top 16 bits only
\* when the expected value has 0xbadf in its top 16 bits
C17_NoSuccessOnBadf ==
  (poll.outcome = "return" /\ BadfRead) => BadfExpected

\* a 0xbadf-shaped value that equals the expected value under the mask, and
\* the poll did not return
C17_Witness ==
  /\ poll.op = "poll_register" /\ poll.st = "done"
  /\ BadfRead /\ ~BadfExpected /\ Satisfied
  /\ poll.outcome # "return"

\* C18 as stated: a poll for a value that is not 0xbadf-shaped ends only by
\* returning or by timing out, a 0xbadf-shaped read being one more failed try
C18_BadfMeansNotYet ==
  (poll.op = "poll_register" /\ poll.st = "done" /\ ~BadfExpected) =>
    poll.outcome \in {"return", "timeout"}

\* C18, amended: in a poll for a value that is not 0xbadf-shaped, a read that
\* returns a 0xbadf-shaped value ends the poll at once with the GpuError of
\* the read; the poll neither reads again nor returns nor times out
C18_BadfReadEndsPoll ==
  (poll.op = "poll_register" /\ ~BadfExpected /\ BadfRead) =>
    /\ poll.st = "done"
    /\ poll.outcome = "read_error"
    /\ poll.error = <<"GpuError", poll.offset, poll.data>>

\* a 0xbadf-shaped read before the deadline ended a poll for 1
C18_Witness ==
  /\ poll.op = "poll_register" /\ poll.value = <<1, 0>>
  /\ poll.data = <<22048, 47839>> /\ ~poll.now_late
  /\ poll.st = "done" /\ poll.outcome = "read_error"

\* C19: poll_register returns on the first read that satisfies the predicate,
\* late or not; it raises the timeout error only when a read that started
\* after the deadline did not satisfy it; it ends only after a read; and the
\* timeout error carries the register's name and offset, the value read last
\* and the expected value
C19_PollRegister ==
  /\ [][(poll.st = "read" /\ poll'.st # "read" /\ poll'.outcome # "read_error") =>
          IF Satisfied' THEN poll'.st = "done" /\ poll'.outcome = "return"
          ELSE IF poll.late THEN poll'.st = "done" /\ poll'.outcome = "timeout"
          ELSE poll'.st = "stamp"]_vars
  /\ [](poll.outcome = "return" => Satisfied)
  /\ [](poll.outcome = "timeout" => (poll.late /\ poll.read_late /\ ~Satisfied))
  /\ [](poll.st = "done" => poll.data \in RegValues)
  /\ []((poll.outcome = "timeout" /\ poll.op = "poll_register") =>
          poll.error = <<"GpuError", poll.name, poll.offset, poll.data, poll.value>>)

\* boot_complete polled for 0xff, read as 0 after the deadline
C19_Witness ==
  /\ poll.op = "poll_register" /\ poll.st = "done" /\ poll.outcome = "timeout"
  /\ poll.read_late
  /\ poll.error = <<"GpuError", "boot_complete", 131260, <<0, 0>>, <<255, 0>> >>

\* the error query_ppcie_settings raised is the invalid-knob error
InvalidKnobRaised ==
  cli.err.kind = "FspRpcError" /\ cli.err.error = <<483, 0>>

\* C20: a PPCIe knob read answered 0x1e3 makes the command line report that a
\* firmware update is needed and fail, with no traceback, no dump and nothing
\* raised; any other GpuError is dumped and that error is raised again
C20_FwUpdateOrReraise ==
  (cli.st = "exited" /\ cli.outcome # "ok") =>
    IF InvalidKnobRaised
    THEN cli.outcome = "failure" /\ cli.log = <<"error_fw_update">>
    ELSE /\ cli.outcome = "raised" /\ cli.raised = cli.err
         /\ \E i \in 1..Len(cli.log) : cli.log[i] = "debug_dump"

\* C21: receive_data returns as many words as the device advertised: on
\* EMEM (mtail - mhead) / 4 + 1 words, those at the channel base; on MNOC
\* ceil(size / 4) words of the mailbox, size being the low 20 bits of the
\* send-mailbox info register
C21_ReceivesAdvertisedSize ==
  /\ [][(pc = "read" /\ pc' = "reset_tail" /\ msg_queue_tail >= msg_queue_head) =>
          /\ Len(mdata') = (msg_queue_tail - msg_queue_head) \div 4 + 1
          /\ \A i \in 1..Len(mdata') : i <= Len(emem) => mdata'[i] = emem[i]]_vars
  /\ [][(pc = "mnoc_recv" /\ mnoc.message # <<>> /\ pc' # pc) =>
          /\ Len(mdata') = (mnoc.size + 3) \div 4
          /\ mdata' = mnoc.message]_vars

\* a five-word MNOC message advertised as 17 bytes has been received whole
C21_Witness ==
  /\ impl = "MseRpc" /\ pc = "done" /\ result.kind = "ok"
  /\ Len(mdata) = 5 /\ mdata[5] = <<5, 0>> /\ result.data = << <<5, 0>> >>

\* C22: from_ints(v) then to_int_list() gives back the ints of v, whether v
\* is a list, a tuple or a generator; to_bytes then from_bytes restores
\* every field; bitfields are packed least-significant-first in declaration
\* order, so that MctpHeader has som at bit 31 and eom at bit 30 and
\* MctpMessageHeader has nvdm_type at bits 24-31
C22_StructRoundTrips ==
  /\ [][(ns.st = "loaded" /\ ns'.st = "listed") => ns'.out = ns.ints]_vars
  /\ [][(ns.st = "packed" /\ ns'.st = "unpacked") => ns'.obj = ns.obj]_vars
  /\ [][(ns'.st = "packed" /\ ns.st # "packed" /\ ns.cls # "DemoStruct") =>
          LET integer == ints_from_data(ns'.bytes)[1]
              fields == Fields(ns.cls)
          IN /\ Len(ns'.bytes) = 4
             /\ \A i \in DOMAIN fields :
                  from_int_field(fields, fields[i][1], integer) = ns.obj[fields[i][1]]
             /\ ns.cls = "MctpHeader" =>
                  /\ integer[2] \div 32768 = ns.obj["som"]
                  /\ (integer[2] \div 16384) % 2 = ns.obj["eom"]
             /\ ns.cls = "MctpMessageHeader" =>
                  integer[2] \div 256 = ns.obj["nvdm_type"]]_vars

\* an MctpHeader loaded from a generator yielding 0xc0000000 has som and eom
\* set, lists that int again and survives to_bytes / from_bytes
C22_Witness ==
  /\ ns.st = "unpacked" /\ ns.cls = "MctpHeader" /\ ns.iterable = "generator"
  /\ ns.ints = << <<0, 49152>> >> /\ ns.out = ns.ints
  /\ ns.obj["som"] = 1 /\ ns.obj["eom"] = 1 /\ ns.obj["seq"] = 0
  /\ ns.bytes = <<0, 0, 0, 192>>

\* C23: constructing the EMEM channel writes no queue register when both
\* queues are empty; otherwise it waits for a message, goes on without an
\* error when the wait times out, and then sets command-queue and
\* message-queue head and tail to the channel base, so that the
\* constructor returns with both queues reading head = tail = base
C23_ResetRpcState ==
  /\ [][(pc = "ctor" /\ pc' # pc) =>
          /\ UNCHANGED qregs
          /\ IF is_queue_empty /\ is_msg_queue_empty
             THEN pc' = "idle" /\ fsp_rpc' = 1
             ELSE pc' = "ctor_settle"]_vars
  /\ [][(pc = "ctor_settle" /\ pc' # pc) =>
          /\ pc' = "ctor_reset" /\ UNCHANGED <<qregs, result>>
          /\ ~is_msg_queue_empty \/ expired]_vars
  /\ [][(pc = "ctor_reset" /\ pc' # pc) =>
          /\ pc' = "idle" /\ fsp_rpc' = 1 /\ UNCHANGED result
          /\ queue_head' = nvdm_emem_base /\ queue_tail' = nvdm_emem_base
          /\ msg_queue_head' = nvdm_emem_base /\ msg_queue_tail' = nvdm_emem_base]_vars
  /\ (pc = "ctor_settle") ~> (pc = "ctor_reset")

\* the constructor found a queue not empty, waited and has reset the four
\* registers before any operation
C23_Witness ==
  /\ impl = "FspEmemRpc" /\ pc = "idle" /\ ops = 0 /\ fsp_rpc = 1 /\ irq
  /\ result = NoResult
  /\ queue_head = nvdm_emem_base /\ queue_tail = nvdm_emem_base
  /\ msg_queue_head = nvdm_emem_base /\ msg_queue_tail = nvdm_emem_base

\* C24: send_data writes all the words to EMEM at the channel base, then
\* the command-queue tail = base + (len(words) - 1) * 4, then the head =
\* base; neither register is written before the words are all in EMEM
C24_PayloadThenTailThenHead ==
  /\ [][(task.op = "send_data" /\ pc = "emem" /\ pc' # pc) =>
          /\ pc' = "tail" /\ UNCHANGED qregs
          /\ SubSeq(emem', 1, Len(task.data)) = task.data]_vars
  /\ [][(task.op = "send_data" /\ pc = "tail" /\ pc' # pc) =>
          /\ pc' = "head" /\ seen.wrote
          /\ queue_tail' = nvdm_emem_base + (Len(task.data) - 1) * 4
          /\ UNCHANGED <<queue_head, emem>>]_vars
  /\ [][(task.op = "send_data" /\ pc = "head" /\ pc' # pc) =>
          /\ seen.wrote
          /\ queue_head' = nvdm_emem_base
          /\ UNCHANGED <<queue_tail, emem>>]_vars
  /\ [][(task.op = "send_data" /\ pc \notin {"tail", "head"}) =>
          queue_tail' = queue_tail]_vars
  /\ [][(task.op = "send_data" /\ pc # "head" /\ queue_head' # queue_head) =>
          (pc' = pc /\ queue_head' = queue_tail)]_vars

\* send_data has returned: three words are in EMEM, the tail is 8 bytes
\* above the head at the base
C24_Witness ==
  /\ impl = "FspEmemRpc" /\ task.op = "send_data" /\ pc = "done" /\ result.kind = "ok"
  /\ Len(task.data) = 3 /\ SubSeq(emem, 1, 3) = task.data
  /\ queue_head = nvdm_emem_base /\ queue_tail = nvdm_emem_base + 8

\* C25: send_data polls for receive credits before the first data word and
\* again before every 16th word, so a data word is written only after a
\* credit poll that succeeded within its own 64-byte block; after a credit
\* poll that failed no data word is written
C25_CreditsForEachBlock ==
  /\ [][(task.op = "mnoc_send_data" /\ mnoc'.inbox # mnoc.inbox /\ mnoc'.inbox # <<>>) =>
          /\ pc = "mnoc_credits" /\ mnoc.credits
          /\ Len(mnoc.inbox) % 16 = 0
          /\ Len(mnoc'.inbox) <= Len(mnoc.inbox) + 16
          /\ mnoc'.inbox = SubSeq(task.data, 1, Len(mnoc'.inbox))]_vars
  /\ [][(task.op = "mnoc_send_data" /\ pc = "mnoc_credits" /\ pc' # pc /\ ~mnoc.credits) =>
          /\ pc' = "done" /\ result'.kind = "GpuPollTimeout"
          /\ mnoc'.inbox = mnoc.inbox]_vars
  /\ [][(task.op = "mnoc_send_data" /\ pc = "done") => mnoc'.inbox = mnoc.inbox]_vars

\* the credit poll before the 17th word failed: 16 words of 17 are written
C25_Witness ==
  /\ task.op = "mnoc_send_data" /\ pc = "done" /\ Len(task.data) = 17
  /\ result.kind = "GpuPollTimeout" /\ result.site = "credits_timeout"
  /\ Len(mnoc.inbox) = 16

\* C26: no RPC is sent before boot completion has been seen: _init_fsp_rpc
\* waits for boot before it constructs the client, so before any queue
\* register is read or written, and prc_cmd waits for boot before each
\* command; when wait_for_boot raises, no command word and no queue
\* register is written
C26_BootBeforeRpc ==
  /\ [][(impl = "FspRpc" /\ pc \in {"init", "init_boot", "boot"} /\ pc' # pc) =>
          UNCHANGED <<qregs, emem, fsp_rpc>>]_vars
  /\ [][(impl = "FspRpc" /\ pc \in {"init_boot", "boot"} /\ pc' # pc) =>
          IF boot_done
          THEN pc' = (IF pc = "init_boot" THEN "ctor" ELSE "poll_q") /\ UNCHANGED result
          ELSE pc' = "done" /\ result'.kind = "GpuError" /\ result'.site = "boot_timeout"]_vars
  /\ [][(impl = "FspRpc" /\ pc' = "ctor" /\ pc # "ctor") => pc = "init_boot"]_vars
  /\ [][(impl = "FspRpc" /\ pc' = "poll_q" /\ pc # "poll_q") => pc = "boot"]_vars
  /\ [][(impl = "FspRpc" /\ fsp_rpc' # fsp_rpc /\ fsp_rpc' # 0) => seen.booted]_vars
  /\ []((impl = "FspRpc" /\ pc \in {"ctor", "ctor_settle", "ctor_reset", "poll_q", "chk",
                                     "emem", "tail", "head"}) => seen.booted)
  /\ []((impl = "FspRpc" /\ pc = "done" /\ result.site = "boot_timeout") =>
          (~seen.wrote /\ ~Sending))

\* prc_cmd's own wait_for_boot raised on a client built before a reset:
\* nothing of the command is written
C26_Witness ==
  /\ impl = "FspRpc" /\ pc = "done" /\ result.site = "boot_timeout"
  /\ fsp_rpc # 0 /\ resets > 0 /\ ~seen.wrote /\ ~boot_done

\* C27: every packet send_data publishes lies in the channel's own 1024
\* bytes of EMEM: for every word list the offsets written are in
\* [channel_num * 1024, channel_num * 1024 + 1024) and the tail published
\* is at least the base and at most base + 1020
C27_PacketInsideRegion ==
  /\ [][(task.op = "send_data" /\ pc = "emem" /\ pc' = "tail") =>
          \A offset \in EmemOffsets(task.data) :
             /\ offset >= channel_num * 1024
             /\ offset < channel_num * 1024 + 1024]_vars
  /\ [][(task.op = "send_data" /\ pc = "tail" /\ pc' = "head") =>
          /\ queue_tail' >= nvdm_emem_base
          /\ queue_tail' <= nvdm_emem_base + 1020]_vars

\* C28: the message tail is set to the message head once the response has
\* been read and before it is validated, so when prc_cmd raises for a short
\* response, a wrong type or a nonzero completion code the message queue
\* reads head = tail, and only a new message of the device makes it
\* non-empty again for a following prc_cmd
C28_QueueEmptiedBeforeValidation ==
  /\ [][(pc = "reset_tail" /\ pc' # pc) =>
          /\ msg_queue_tail' = seen.mhead
          /\ msg_queue_head' = msg_queue_tail']_vars
  /\ []((impl = "FspRpc" /\ pc = "done"
         /\ result.site \in {"short", "nvdm_type", "req_type", "completion"}) =>
          (seen.rwrote /\ result.kind = "GpuError"))
  /\ [][(msg_queue_head = msg_queue_tail /\ msg_queue_head' # msg_queue_tail') =>
          (dev \in {"taken", "busy"} /\ dev' # dev /\ UNCHANGED hostvars)]_vars

\* prc_cmd has raised for a nonzero completion code and the message queue
\* reads empty
C28_Witness ==
  /\ impl = "FspRpc" /\ pc = "done" /\ result.kind = "GpuError"
  /\ result.site = "completion" /\ seen.rwrote
  /\ msg_queue_head = msg_queue_tail /\ Len(mdata) >= 5

\* C29: when set_cc_mode(mode) returns without an error the knobs hold
\* CCM = 0, CCD = 0, BAR0_DECOUPLER = 0 for "off", CCM = 1, CCD = 0,
\* BAR0_DECOUPLER = 2 for "on" and CCM = 1, CCD = 1, BAR0_DECOUPLER = 0 for
\* "devtools", whatever they held before; the three prerequisite knobs are 0
\* after "on" and "devtools" and are left alone by "off"; any other mode
\* raises ValueError before any RPC
C29_CcModeKnobs ==
  /\ []((task.op = "set_cc_mode" /\ pc = "done" /\ result.kind = "ok") =>
          /\ knobs[PRC_KNOB_ID_CCM] = (IF task.mode = "off" THEN 0 ELSE 1)
          /\ knobs[PRC_KNOB_ID_CCD] = (IF task.mode = "devtools" THEN 1 ELSE 0)
          /\ knobs[PRC_KNOB_ID_BAR0_DECOUPLER] = (IF task.mode = "on" THEN 2 ELSE 0)
          /\ task.mode \in {"on", "devtools"} =>
               \A id \in {PRC_KNOB_ID_2, PRC_KNOB_ID_4, PRC_KNOB_ID_34} : knobs[id] = 0)
  /\ [][(task.op = "set_cc_mode" /\ task.mode = "off") =>
          \A id \in {PRC_KNOB_ID_2, PRC_KNOB_ID_4, PRC_KNOB_ID_34} :
             knobs'[id] = knobs[id]]_vars
  /\ [][(pc = "idle" /\ task'.op = "set_cc_mode" /\ task'.mode \notin {"on", "devtools", "off"}) =>
          /\ pc' = "done" /\ result'.kind = "ValueError"
          /\ UNCHANGED <<qregs, emem, fsp_rpc, irq>>]_vars
  /\ []((task.op = "set_cc_mode" /\ task.mode \notin {"on", "devtools", "off"}) =>
          (pc = "done" /\ result.kind = "ValueError"))

\* set_cc_mode("on") has returned on a device that started in devtools mode
\* with prerequisite knobs set: CCD and the prerequisites are now 0
C29_Witness ==
  /\ task.op = "set_cc_mode" /\ task.mode = "on" /\ pc = "done" /\ result.kind = "ok"
  /\ knobs[PRC_KNOB_ID_CCM] = 1 /\ knobs[PRC_KNOB_ID_CCD] = 0
  /\ knobs[PRC_KNOB_ID_BAR0_DECOUPLER] = 2
  /\ Len(knob_log) >= 10

\* C30: the command line calls block_nvlinks only when every requested
\* link index has been validated to lie in [0, num_nvlinks), and then
\* exactly once, with the full list; when an index is invalid block_nvlinks
\* is never called
C30_ValidateAllThenBlockOnce ==
  /\ [][cli'.calls # cli.calls =>
          /\ cli.st = "links" /\ cli.idx > Len(cli.links)
          /\ \A i \in DOMAIN cli.links : ~InvalidLink(cli.links[i], nvlink.number)
          /\ cli.calls = <<>> /\ cli'.calls = <<cli.links>>]_vars
  /\ []((cli.st = "exited" /\ cli.outcome = "ok") => Len(cli.calls) = 1)
  /\ []((\E i \in DOMAIN cli.links : InvalidLink(cli.links[i], nvlink.number)) =>
          cli.calls = <<>>)

====
